---- MODULE Spec2Model ----
(***************************************************************************)
(* Model of the Tokopedia scraping pipeline: run_pipeline (app.py) with    *)
(* the calls it makes into search_candidates (layers/search_layer.py),     *)
(* scrape_product_detail (layers/detail_layer.py), the media step,         *)
(* normalize_output_row (layers/normalization_layer.py) and the export.    *)
(* Keywords are identified by their position in the input list.            *)
(* Parts of the program are also exercised on their own, each under a      *)
(* specification of its own: rank_and_select_top_n (RankSpec),             *)
(* _looks_like_product_url (UrlSpec), download_product_images called       *)
(* repeatedly with the same arguments (ImgSpec), normalize_keywords        *)
(* (NkSpec), normalize_output_row (NrSpec), the browser session of         *)
(* utils/browser.py called from several threads (SessSpec), the merge of   *)
(* a candidate with its detail record (MgSpec) and the card loop of        *)
(* search_candidates (CsSpec).                                             *)
(***************************************************************************)
EXTENDS Integers, Sequences, FiniteSets, TLC

\* ----------------------------------------------------------------------
\* Bounds of the model
\* ----------------------------------------------------------------------
NumKeywords == 2

\* threads that call utils/browser.py, and calls they make altogether
NumThreads == 2

MaxSessionCalls == 3

MaxCards == 2

\* ----------------------------------------------------------------------
\* Program constants
\* ----------------------------------------------------------------------
MAX_RETRIES == 3

max_candidates == 2

CardCheckFactor == 5

TopSlice == 2

\* ----------------------------------------------------------------------
\* Exceptions.  RetryError is what tenacity raises when it gives up (the
\* decorators do not pass reraise=True); every class below derives from
\* Exception.
\* ----------------------------------------------------------------------
ExceptionSubclasses == {"Exception", "TokopediaBlockedError", "RetryError", "AttributeError"}

NoExc == "none"

\* ----------------------------------------------------------------------
\* Rendered search pages: the lowercased content is modelled by the set of
\* marker words it contains; indicators is the count of product-like
\* elements, or -1 when the locator query raises.
\* ----------------------------------------------------------------------
PageTexts ==
    { {}, {"captcha"}, {"captcha", "form"}, {"captcha", "challenge"},
      {"captcha", "verify"}, {"access denied"}, {"blocked"}, {"forbidden"},
      {"form", "verify"} }

IndicatorOutcomes == {-1, 0, 1}

\* readable is FALSE when page.content() raises
NoPage == [text |-> {}, indicators |-> 0, readable |-> FALSE]

RenderedPages ==
    { [text |-> t, indicators |-> i, readable |-> TRUE] : t \in PageTexts, i \in IndicatorOutcomes }
    \cup { NoPage }

has_captcha_form(text) ==
    "captcha" \in text /\ ("form" \in text \/ "challenge" \in text \/ "verify" \in text)

has_blocked_page(text) ==
    "access denied" \in text \/ "blocked" \in text \/ "forbidden" \in text

has_products(indicators) == indicators > 0

IsBlockedNoProductTest(text, indicators) ==
    has_captcha_form(text) \/ has_blocked_page(text)

\* search_layer.py line 252: raise only when a marker is present AND no
\* product indicator was found.
IsBlocked(text, indicators) ==
    (has_captcha_form(text) \/ has_blocked_page(text)) /\ ~has_products(indicators)

\* ----------------------------------------------------------------------
\* tenacity: stop_after_attempt(config.MAX_RETRIES), retry on any exception
\* ----------------------------------------------------------------------
SearchStop(attempt_number) == attempt_number >= MAX_RETRIES

DetailStopOneMore(attempt_number) == attempt_number >= MAX_RETRIES + 1

DetailStop(attempt_number) == attempt_number >= MAX_RETRIES

\* page.goto strategies of one attempt, and the number of goto calls made
NavOutcomes == {"domcontentloaded", "networkidle", "commit", "fail"}

GotoCalls(nav) ==
    CASE nav = "domcontentloaded" -> 1
      [] nav = "networkidle" -> 2
      [] OTHER -> 3

\* ----------------------------------------------------------------------
\* Card extraction.  A card is the id of the product URL that
\* _pick_product_url_from_card finds in it, 0 when it finds none (or the
\* card's parse raises and the card is skipped).
\* ----------------------------------------------------------------------
SeqsUpTo(S, n) == UNION { [1..k -> S] : k \in 0..n }

\* ids of the product URLs a card may carry
UrlIds == {1, 2}

CardSeqs == SeqsUpTo({0} \cup UrlIds, MaxCards)

Min(a, b) == IF a < b THEN a ELSE b

max_cards_to_check(card_count) == Min(card_count, max_candidates * CardCheckFactor)

RECURSIVE ExtractCards(_, _, _, _)
\* the loop of lines 399-563 over cards[i..limit], with the early exit
ExtractCards(cards, i, limit, acc) ==
    IF i > limit \/ Len(acc) >= max_candidates THEN acc
    ELSE IF cards[i] = 0 THEN ExtractCards(cards, i + 1, limit, acc)
    ELSE ExtractCards(cards, i + 1, limit, Append(acc, [product_url |-> cards[i]]))

\* line 575: seen.add(u)
SeenAfterNoAdd(seen, url) == seen

SeenAfter(seen, url) == seen \cup {url}

RECURSIVE DedupeByUrl(_, _, _)
\* lines 568-576: dedupe by product_url, first occurrence kept
DedupeByUrl(cands, seen, uniq) ==
    IF cands = << >> THEN uniq
    ELSE LET c == Head(cands) IN
         IF c.product_url = 0 \/ c.product_url \in seen
         THEN DedupeByUrl(Tail(cands), seen, uniq)
         ELSE DedupeByUrl(Tail(cands), SeenAfter(seen, c.product_url), Append(uniq, c))

Truncate(s, n) == SubSeq(s, 1, Min(Len(s), n))

\* outcome of the card stage of one attempt (lines 326-578)
CardStageRaiseOnEmpty(cards) ==
    LET uniq == DedupeByUrl(ExtractCards(cards, 1, max_cards_to_check(Len(cards)), << >>), {}, << >>) IN
    IF uniq = << >> THEN [kind |-> "raise", value |-> << >>]
    ELSE [kind |-> "return", value |-> Truncate(uniq, max_candidates)]

CardStage(cards) ==
    IF Len(cards) = 0 THEN [kind |-> "return", value |-> << >>]
    ELSE [kind |-> "return",
          value |-> Truncate(
              DedupeByUrl(ExtractCards(cards, 1, max_cards_to_check(Len(cards)), << >>), {}, << >>),
              max_candidates)]

\* ----------------------------------------------------------------------
\* State
\* ----------------------------------------------------------------------
VARIABLES
    pc,                 \* position of run_pipeline / of the call in progress
    skip_captcha_check, \* config.SKIP_CAPTCHA_CHECK
    enable_image_download,
    page_created,       \* create_page() returned
    kw,                 \* index of the keyword being processed (0 before the loop)
    started,            \* keywords whose loop iteration began, in order
    all_rows,
    handlersRun,        \* per keyword: the except clauses of run_pipeline that ran
    searchEnd,          \* per keyword: how its search_candidates call ended
    \* search_candidates call in progress
    sAttempt,           \* tenacity attempt number
    page,               \* page rendered by the goto of the current attempt
    blockedSeen,        \* a blocking page was detected during this call
    navAfterBlocked,    \* goto calls made in this call after the first detection
    attemptExc,         \* exception raised by the body in its last finished attempt
    callerExc,          \* exception delivered to run_pipeline
    cards,              \* cards examined by the attempt that reached the card stage
    candidates,
    \* scrape_product_detail call in progress
    cIdx,               \* index of the candidate being resolved
    dAttempt,           \* tenacity attempt number
    detail_page,        \* "none", "tab" (new tab) or "main" (fallback to caller's page)
    gotoLog,            \* result of detail_page.goto in each attempt of this call
    detailRet,          \* what the call delivered to run_pipeline
    detailStore,        \* store_name of the record the call returned
    tabsOpened,         \* tabs this call opened with context.new_page()
    tabsClosed,         \* tabs this call closed
    mainPageClosed,     \* the caller's page was closed by scrape_product_detail
    detailOutcome,      \* per candidate of the keyword: "ok" or "fail"
    detailed,
    \* media / normalization
    top,
    tIdx,
    \* result of run_pipeline
    ret,
    \* a call of rank_and_select_top_n
    rank_call,          \* its arguments
    rank_result,        \* its locals `filtered` and the returned order
    \* a call of _looks_like_product_url
    url_call,           \* its argument
    url_result,         \* the parsed URL, then the returned verdict
    \* calls of download_product_images with one argument list
    img_call,           \* image_urls and the number of the call
    img_pc,             \* "idle", "start", "loop" or "returned"
    urls,               \* the local list of line 138
    idx,                \* enumerate index of the URL the loop is at
    saved,              \* the local list `saved`, returned at the end
    requested,          \* enumerate indices requests.get was called for in this call
    reused,             \* enumerate indices whose file was found on disk in this call
    last_fetch,         \* what the most recent requests.get of this call led to
    prev_saved,         \* what the previous call returned
    disk,               \* the files of the product directory that exist
    \* a call of normalize_keywords
    keywords,           \* its argument
    nk_pc,              \* "idle", "start", "loop" or "returned"
    normalized,         \* the local list of line 49
    nk_pos,             \* position of the loop of lines 53-56 in `normalized`
    nk_seen,            \* the local set `seen`
    unique,             \* the local list `unique`, returned at the end
    \* a call of normalize_output_row
    nr_row,             \* its argument
    nr_pc,              \* "idle", "start", "built", "returned" or "raised"
    out,                \* the local dict `out`, as the list of its items
    \* the session module utils/browser.py, used by several threads
    seleniumbase_available, \* _SELENIUMBASE_AVAILABLE, decided at import
    g_sb,               \* the global _sb is set
    g_browser,          \* the global _browser is set
    g_context,          \* the global _context: 0 (None) or the id of a context
    g_playwright,       \* the global _playwright: 0 (None) or the id of a driver
    lock,               \* the RLock _lock: owning thread (0: free) and depth
    t_pc,               \* per thread: position in the function on top of its stack
    t_stack,            \* per thread: the functions of the module it is inside of
    t_attempt,          \* per thread: tenacity attempt number of init_browser
    calls_made,         \* calls of the module made by the threads
    t_ret,              \* per thread: what its last get_browser_context returned
    drivers,            \* ids of the Playwright drivers started and not stopped
    contexts,           \* ids of the browser contexts created and not closed
    teardowns,          \* times close_browser cleared _context
    state_file,         \* storage state file: "absent", or the probe result it was saved after
    \* the merge of a candidate with its detail record in run_pipeline
    mg_cand,            \* the candidate `cand`
    mg_detail,          \* what scrape_product_detail returned
    mg_pc,              \* "idle", "start", "merged" or "appended"
    merged,             \* the local dict `merged`
    \* the card loop of search_candidates, one iteration at a time
    cs_cards,           \* the cards the locator found
    cs_pc,              \* "idle", "loop" or "returned"
    cs_i,               \* cards examined so far
    cs_candidates,      \* the local list `candidates`
    cs_ret              \* what search_candidates returned

searchVars == << sAttempt, page, blockedSeen, navAfterBlocked, attemptExc, callerExc,
                 cards, candidates >>

detailVars == << cIdx, dAttempt, detail_page, gotoLog, detailRet, detailStore,
                 detailOutcome, detailed >>

tabVars == << tabsOpened, tabsClosed, mainPageClosed >>

pipeVars == << pc, skip_captcha_check, enable_image_download, page_created, kw, started,
               all_rows, handlersRun, searchEnd, searchVars, detailVars, tabVars, top, tIdx,
               ret >>

rankVars == << rank_call, rank_result >>

urlVars == << url_call, url_result >>

imgVars == << img_call, img_pc, urls, idx, saved, requested, reused, last_fetch,
              prev_saved, disk >>

kwVars == << keywords, nk_pc, normalized, nk_pos, nk_seen, unique >>

\* the state of the helpers and of the session module
nrVars == << nr_row, nr_pc, out >>

sessVars == << seleniumbase_available, g_sb, g_browser, g_context, g_playwright, lock,
               t_pc, t_stack, t_attempt, calls_made, t_ret, drivers, contexts, teardowns,
               state_file >>

mgVars == << mg_cand, mg_detail, mg_pc, merged >>

csVars == << cs_cards, cs_pc, cs_i, cs_candidates, cs_ret >>

lateVars == << kwVars, nrVars, sessVars, mgVars, csVars >>

\* the state of the layer functions that are exercised on their own
auxVars == << rankVars, urlVars, imgVars, lateVars >>

vars == << pipeVars, auxVars >>

config == << skip_captcha_check, enable_image_download >>

NoRet == [kind |-> "none", rows |-> << >>, excel_bytes |-> "none"]

NoCall == [kind |-> "none"]

RankIdle ==
    /\ rank_call = NoCall
    /\ rank_result = NoCall

UrlIdle ==
    /\ url_call = NoCall
    /\ url_result = NoCall

NoFetch == [idx |-> 0, outcome |-> "none"]

ImgIdle ==
    /\ img_call = NoCall
    /\ img_pc = "idle"
    /\ urls = << >>
    /\ idx = 0
    /\ saved = << >>
    /\ requested = {}
    /\ reused = {}
    /\ last_fetch = NoFetch
    /\ prev_saved = << >>
    /\ disk = << >>

KwIdle ==
    /\ keywords = << >>
    /\ nk_pc = "idle"
    /\ normalized = << >>
    /\ nk_pos = 0
    /\ nk_seen = {}
    /\ unique = << >>

NrIdle ==
    /\ nr_row = << >>
    /\ nr_pc = "idle"
    /\ out = << >>

NoContext == [ctx |-> 0, epoch |-> 0]

\* the module after import, no call made
SessImported ==
    /\ g_sb = FALSE
    /\ g_browser = FALSE
    /\ g_context = 0
    /\ g_playwright = 0
    /\ lock = [owner |-> 0, depth |-> 0]
    /\ t_pc = [t \in 1..NumThreads |-> "idle"]
    /\ t_stack = [t \in 1..NumThreads |-> << >>]
    /\ t_attempt = [t \in 1..NumThreads |-> 0]
    /\ t_ret = [t \in 1..NumThreads |-> NoContext]
    /\ drivers = {}
    /\ contexts = {}
    /\ teardowns = 0
    /\ state_file = "absent"

\* no thread will call the module
SessIdle ==
    /\ SessImported
    /\ seleniumbase_available = FALSE
    /\ calls_made = MaxSessionCalls

MgIdle ==
    /\ mg_cand = << >>
    /\ mg_detail = << >>
    /\ mg_pc = "idle"
    /\ merged = << >>

CsIdle ==
    /\ cs_cards = << >>
    /\ cs_pc = "idle"
    /\ cs_i = 0
    /\ cs_candidates = << >>
    /\ cs_ret = << >>

LateIdle ==
    /\ KwIdle
    /\ NrIdle
    /\ SessIdle
    /\ MgIdle
    /\ CsIdle

PipeInit ==
    /\ pc = "create_page"
    /\ skip_captcha_check \in BOOLEAN
    /\ enable_image_download \in BOOLEAN
    /\ page_created = FALSE
    /\ kw = 0
    /\ started = << >>
    /\ all_rows = << >>
    /\ handlersRun = [k \in 1..NumKeywords |-> << >>]
    /\ searchEnd = [k \in 1..NumKeywords |-> "none"]
    /\ sAttempt = 0
    /\ page = NoPage
    /\ blockedSeen = FALSE
    /\ navAfterBlocked = 0
    /\ attemptExc = NoExc
    /\ callerExc = NoExc
    /\ cards = << >>
    /\ candidates = << >>
    /\ cIdx = 0
    /\ dAttempt = 0
    /\ detail_page = "none"
    /\ gotoLog = << >>
    /\ detailRet = "none"
    /\ detailStore = ""
    /\ tabsOpened = 0
    /\ tabsClosed = 0
    /\ mainPageClosed = FALSE
    /\ detailOutcome = << >>
    /\ detailed = << >>
    /\ top = << >>
    /\ tIdx = 0
    /\ ret = NoRet

\* run_pipeline not started, with both switches off
PipeIdle ==
    /\ PipeInit
    /\ ~skip_captcha_check
    /\ ~enable_image_download

Init ==
    /\ PipeInit
    /\ RankIdle
    /\ UrlIdle
    /\ ImgIdle
    /\ LateIdle

\* the locals of a finished search_candidates call
SearchFrameGone ==
    /\ sAttempt' = 0
    /\ page' = NoPage
    /\ blockedSeen' = FALSE
    /\ navAfterBlocked' = 0
    /\ attemptExc' = NoExc
    /\ callerExc' = NoExc
    /\ cards' = << >>

\* the per-candidate locals of run_pipeline, dead once the loop is over
DetailLocalsGone ==
    /\ cIdx' = 0
    /\ dAttempt' = 0
    /\ detail_page' = "none"
    /\ gotoLog' = << >>
    /\ detailRet' = "none"
    /\ detailStore' = ""
    /\ detailOutcome' = << >>
    /\ detailed' = << >>

\* ----------------------------------------------------------------------
\* run_pipeline: the keyword loop
\* ----------------------------------------------------------------------
\* a fresh loop iteration for keyword k (app.py line 87): the per-keyword
\* locals are rebound and search_candidates is entered (first attempt)
EnterKeyword(k) ==
    /\ kw' = k
    /\ started' = Append(started, k)
    /\ pc' = "search_goto"
    /\ sAttempt' = 1
    /\ page' = NoPage
    /\ blockedSeen' = FALSE
    /\ navAfterBlocked' = 0
    /\ attemptExc' = NoExc
    /\ callerExc' = NoExc
    /\ cards' = << >>
    /\ candidates' = << >>
    /\ DetailLocalsGone
    /\ top' = << >>
    /\ tIdx' = 0

\* leaving the loop (line 213 follows the last iteration)
LeaveLoop ==
    /\ pc' = "export"
    /\ SearchFrameGone
    /\ candidates' = << >>
    /\ DetailLocalsGone
    /\ top' = << >>
    /\ tIdx' = 0
    /\ UNCHANGED << kw, started >>

\* `continue`, or falling off the end of the loop body
NextKeyword ==
    IF kw < NumKeywords THEN EnterKeyword(kw + 1) ELSE LeaveLoop

\* lines 72-87: create_page(), then the first iteration
CreatePage ==
    /\ pc = "create_page"
    /\ UNCHANGED auxVars
    /\ UNCHANGED tabVars
    /\ \E ok \in BOOLEAN :
         IF ok
         THEN /\ page_created' = TRUE
              /\ NextKeyword
              /\ UNCHANGED << config, all_rows, handlersRun, searchEnd, ret >>
         ELSE /\ pc' = "fatal"
              /\ UNCHANGED << config, page_created, kw, started, all_rows, handlersRun,
                              searchEnd, searchVars, detailVars, top, tIdx, ret >>

\* ----------------------------------------------------------------------
\* search_candidates (search_layer.py lines 179-578), one tenacity-wrapped
\* call per keyword
\* ----------------------------------------------------------------------
\* what tenacity raises to the caller once it stops retrying: the decorator
\* of line 179 does not set reraise, so the last exception is wrapped
TenacityRaises(last_exc) == "RetryError"

\* the body raised exc in attempt sAttempt: tenacity retries or gives up
SearchBodyRaises(exc) ==
    /\ attemptExc' = exc
    /\ page' = NoPage
    /\ IF SearchStop(sAttempt)
       THEN /\ callerExc' = TenacityRaises(exc)
            /\ pc' = "kw_except"
            /\ searchEnd' = [searchEnd EXCEPT ![kw] =
                                IF exc = "TokopediaBlockedError" THEN "blocked" ELSE "failed"]
            /\ UNCHANGED sAttempt
       ELSE /\ sAttempt' = sAttempt + 1
            /\ pc' = "search_goto"
            /\ UNCHANGED << callerExc, searchEnd >>

\* lines 194-209: navigation with the layered wait strategy
SearchGoto ==
    /\ pc = "search_goto"
    /\ UNCHANGED auxVars
    /\ UNCHANGED tabVars
    /\ \E nav \in NavOutcomes :
         /\ navAfterBlocked' = IF blockedSeen THEN navAfterBlocked + GotoCalls(nav) ELSE 0
         /\ IF nav = "fail"
            THEN SearchBodyRaises("Exception")
            ELSE /\ \E rendered \in RenderedPages : page' = rendered
                 /\ pc' = "search_check"
                 /\ attemptExc' = NoExc
                 /\ UNCHANGED << sAttempt, callerExc, searchEnd >>
    /\ UNCHANGED << config, page_created, kw, started, all_rows, handlersRun,
                    blockedSeen, cards, candidates, detailVars, top, tIdx, ret >>

\* lines 221-268: the blocking heuristic
SearchCheck ==
    /\ pc = "search_check"
    /\ UNCHANGED auxVars
    /\ UNCHANGED tabVars
    /\ IF skip_captcha_check
       THEN /\ pc' = "search_wait"
            /\ page' = NoPage
            /\ UNCHANGED << sAttempt, attemptExc, callerExc, searchEnd, blockedSeen >>
       ELSE   IF ~page.readable
              THEN /\ SearchBodyRaises("Exception")
                   /\ UNCHANGED blockedSeen
              ELSE IF IsBlocked(page.text, page.indicators)
              THEN /\ blockedSeen' = TRUE
                   /\ SearchBodyRaises("TokopediaBlockedError")
              ELSE /\ pc' = "search_wait"
                   /\ page' = NoPage
                   /\ UNCHANGED << sAttempt, attemptExc, callerExc, searchEnd, blockedSeen >>
    /\ UNCHANGED << config, page_created, kw, started, all_rows, handlersRun,
                    navAfterBlocked, cards, candidates, detailVars, top, tIdx, ret >>

\* lines 284-324: wait for the product list (three fallbacks), scroll
SearchWaitList ==
    /\ pc = "search_wait"
    /\ UNCHANGED auxVars
    /\ UNCHANGED tabVars
    /\ \E list_loaded \in BOOLEAN :
         IF list_loaded
         THEN /\ pc' = "search_cards"
              /\ UNCHANGED << sAttempt, page, attemptExc, callerExc, searchEnd >>
         ELSE SearchBodyRaises("Exception")
    /\ UNCHANGED << config, page_created, kw, started, all_rows, handlersRun,
                    blockedSeen, navAfterBlocked, cards, candidates, detailVars, top,
                    tIdx, ret >>

\* lines 326-578: locate the cards, extract, dedupe, truncate
SearchCards ==
    /\ pc = "search_cards"
    /\ UNCHANGED auxVars
    /\ UNCHANGED tabVars
    /\ \E cs \in CardSeqs :
         /\ cards' = cs
         /\ IF CardStage(cs).kind = "return"
            THEN /\ candidates' = CardStage(cs).value
                 /\ pc' = "search_returned"
                 /\ searchEnd' = [searchEnd EXCEPT ![kw] =
                        IF CardStage(cs).value = << >> THEN "empty" ELSE "found"]
                 /\ UNCHANGED << sAttempt, page, attemptExc, callerExc >>
            ELSE /\ SearchBodyRaises("Exception")
                 /\ UNCHANGED candidates
    /\ UNCHANGED << config, page_created, kw, started, all_rows, handlersRun,
                    blockedSeen, navAfterBlocked, detailVars, top, tIdx, ret >>

\* app.py lines 102-110: the candidates came back
AfterSearch ==
    /\ pc = "search_returned"
    /\ UNCHANGED auxVars
    /\ UNCHANGED tabVars
    /\ IF candidates = << >>
       THEN NextKeyword
       ELSE /\ pc' = "detail_open"
            /\ SearchFrameGone
            /\ cIdx' = 1
            /\ dAttempt' = 1
            /\ UNCHANGED << kw, started, candidates, detail_page, gotoLog, detailRet,
                            detailStore, detailOutcome, detailed, top, tIdx >>
    /\ UNCHANGED << config, page_created, all_rows, handlersRun, searchEnd, ret >>

\* the except clauses of run_pipeline that an exception raised inside the
\* loop body reaches: the inner clause of line 96 matches only
\* TokopediaBlockedError and re-raises; the clause of line 204 matches every
\* Exception
HandlersForEscaping(exc) ==
    IF exc = "TokopediaBlockedError" THEN << "blocked_handler" >>
    ELSE IF exc = "RetryError" THEN << >>
    ELSE << "keyword_handler" >>

HandlersFor(exc) ==
    (IF exc = "TokopediaBlockedError" THEN << "blocked_handler" >> ELSE << >>)
    \o (IF exc \in ExceptionSubclasses THEN << "keyword_handler" >> ELSE << >>)

Contains(s, x) == \E i \in 1..Len(s) : s[i] = x

\* lines 96-101 and 204-209
KeywordExcept ==
    /\ pc = "kw_except"
    /\ UNCHANGED auxVars
    /\ UNCHANGED tabVars
    /\ handlersRun' = [handlersRun EXCEPT ![kw] = HandlersFor(callerExc)]
    /\ IF Contains(HandlersFor(callerExc), "keyword_handler")
       THEN NextKeyword
       ELSE /\ pc' = "fatal"
            /\ UNCHANGED << kw, started, searchVars, detailVars, top, tIdx >>
    /\ UNCHANGED << config, page_created, all_rows, searchEnd, ret >>

\* ----------------------------------------------------------------------
\* scrape_product_detail (detail_layer.py lines 443-627), one
\* tenacity-wrapped call per candidate
\* ----------------------------------------------------------------------
\* lines 452-460: a new tab, or the caller's page when that fails
DetailOpenTab ==
    /\ pc = "detail_open"
    /\ UNCHANGED auxVars
    /\ \E tab_ok \in BOOLEAN :
         /\ detail_page' = IF tab_ok THEN "tab" ELSE "main"
         /\ tabsOpened' = IF tab_ok THEN tabsOpened + 1 ELSE tabsOpened
    /\ pc' = "detail_body"
    /\ UNCHANGED << config, page_created, kw, started, all_rows, handlersRun, searchEnd,
                    searchVars, cIdx, dAttempt, gotoLog, detailRet, detailStore,
                    detailOutcome, detailed, tabsClosed, mainPageClosed, top, tIdx, ret >>

\* Text fields are modelled by "" (empty str), a non-empty str, or NonStr,
\* which stands for a truthy value that is not a str.
NonStr == "<non-str>"

\* the value of data["store_name"] (lines 543-558, 131-155): "" or the
\* stripped text of a page element or of a str found in __NEXT_DATA__
StoreNameValuesUnchecked == {"", "toko", NonStr}

StoreNameValues == {"", "toko"}

\* lines 620-627: the finally clause closes detail_page when it is not the
\* caller's page, whether the body returned or raised. An exception of
\* close() is swallowed; Playwright raises it only for a page or browser
\* that is already gone, so the tab counts as closed in both cases.
ClosesDetailPageOnReturnOnly(dp, raised) == dp # "main" /\ ~raised

ClosesDetailPage(dp, raised) == dp # "main"

\* lines 462-627: goto, extraction (every extractor swallows its own
\* exceptions), the finally clause; then tenacity
DetailBody ==
    /\ pc = "detail_body"
    /\ UNCHANGED auxVars
    /\ detail_page' = "none"
    /\ \E goto_ok \in BOOLEAN :
         /\ gotoLog' = Append(gotoLog, goto_ok)
         /\ IF ClosesDetailPage(detail_page, ~goto_ok)
            THEN IF detail_page = "tab"
                 THEN /\ tabsClosed' = tabsClosed + 1
                      /\ UNCHANGED mainPageClosed
                 ELSE /\ mainPageClosed' = TRUE
                      /\ UNCHANGED tabsClosed
            ELSE UNCHANGED << tabsClosed, mainPageClosed >>
         /\ IF goto_ok
            THEN /\ detailRet' = "return"
                 /\ \E s \in StoreNameValues : detailStore' = s
                 /\ detailOutcome' = Append(detailOutcome, "ok")
                 /\ pc' = "detail_returned"
                 /\ UNCHANGED dAttempt
            ELSE IF DetailStop(dAttempt)
            THEN /\ detailRet' = "raise"
                 /\ detailOutcome' = Append(detailOutcome, "fail")
                 /\ pc' = "detail_returned"
                 /\ UNCHANGED << dAttempt, detailStore >>
            ELSE /\ dAttempt' = dAttempt + 1
                 /\ pc' = "detail_open"
                 /\ UNCHANGED << detailRet, detailStore, detailOutcome >>
    /\ UNCHANGED << config, page_created, kw, started, all_rows, handlersRun, searchEnd,
                    searchVars, cIdx, detailed, tabsOpened, top, tIdx, ret >>

\* app.py lines 125-128
Merge(cand, store_name, keyword) ==
    [input_keyword |-> keyword,
     product_url |-> cand.product_url,
     store_name |-> store_name,
     image_local_path |-> ""]

\* app.py lines 131-136: the candidate loop goes on after a failure
NextCandidateOnFailureBreak(i, n) == n + 1

NextCandidateOnFailure(i, n) == i + 1

\* app.py lines 112-136: the call came back to the candidate loop
DetailCaller ==
    /\ pc = "detail_returned"
    /\ UNCHANGED auxVars
    /\ LET nxt == IF detailRet = "return" THEN cIdx + 1
                  ELSE NextCandidateOnFailure(cIdx, Len(candidates))
       IN /\ detailed' = IF detailRet = "return"
                         THEN Append(detailed, Merge(candidates[cIdx], detailStore, kw))
                         ELSE detailed
          /\ cIdx' = nxt
          /\ gotoLog' = << >>
          /\ detailRet' = "none"
          /\ detailStore' = ""
          /\ tabsOpened' = 0
          /\ tabsClosed' = 0
          /\ UNCHANGED mainPageClosed
          /\ IF nxt <= Len(candidates)
             THEN /\ pc' = "detail_open"
                  /\ dAttempt' = 1
             ELSE /\ pc' = "detail_done"
                  /\ dAttempt' = 0
    /\ UNCHANGED << config, page_created, kw, started, all_rows, handlersRun, searchEnd,
                    searchVars, detail_page, detailOutcome, top, tIdx, ret >>

\* app.py lines 138-146
AfterDetail ==
    /\ pc = "detail_done"
    /\ UNCHANGED auxVars
    /\ UNCHANGED tabVars
    /\ IF detailed = << >>
       THEN NextKeyword
       ELSE /\ top' = Truncate(detailed, TopSlice)
            /\ tIdx' = 1
            /\ pc' = "media"
            /\ candidates' = << >>
            /\ DetailLocalsGone
            /\ UNCHANGED << kw, started, sAttempt, page, blockedSeen, navAfterBlocked,
                            attemptExc, callerExc, cards >>
    /\ UNCHANGED << config, page_created, all_rows, handlersRun, searchEnd, ret >>

\* ----------------------------------------------------------------------
\* media step, app.py lines 149-196, one record of top per step
\* ----------------------------------------------------------------------
\* image_layer.py line 127: the parameters of download_product_images, all
\* keyword-only and without default
DownloadImagesParams == {"base_folder", "keyword", "product_name", "image_urls"}

\* app.py lines 170-174: the keyword arguments run_pipeline passes
DownloadImagesArgs == {"keyword", "product_name", "image_urls"}

\* Python binds the arguments before the body runs and raises TypeError
\* when a parameter without default gets no argument
CallBinds(args, params) == params \subseteq args

\* what fetching the images of one record leads to: "saved" when the
\* record has a valid image URL and the request for it succeeds
MediaOutcomes == {"saved", "nothing", "exception"}

\* lines 176-196: the value stored in t["image_local_path"]
LocalPathField(m) == IF m = "saved" THEN "img" ELSE ""

\* the record t with the local path set by lines 153 and 176-195;
\* image_fetchable notes whether the images of the record could be fetched
WithMedia(t, path, fetchable) ==
    [input_keyword |-> t.input_keyword,
     product_url |-> t.product_url,
     store_name |-> t.store_name,
     image_local_path |-> path,
     image_fetchable |-> fetchable]

\* lines 151-196: download disabled (152-155), the call (170-192), or the
\* except clause of line 193, which also catches the TypeError of the call
MediaStep ==
    /\ pc = "media"
    /\ UNCHANGED auxVars
    /\ UNCHANGED tabVars
    /\ IF enable_image_download
       THEN \E m \in MediaOutcomes :
              top' = [top EXCEPT ![tIdx] =
                        WithMedia(@, IF CallBinds(DownloadImagesArgs, DownloadImagesParams)
                                     THEN LocalPathField(m) ELSE "",
                                  m = "saved")]
       ELSE top' = [top EXCEPT ![tIdx] = WithMedia(@, "", FALSE)]
    /\ IF tIdx < Len(top)
       THEN /\ tIdx' = tIdx + 1
            /\ UNCHANGED pc
       ELSE /\ tIdx' = 1
            /\ pc' = "normalize"
    /\ UNCHANGED << config, page_created, kw, started, all_rows, handlersRun, searchEnd,
                    searchVars, detailVars, ret >>

\* ----------------------------------------------------------------------
\* normalize_output_row (normalization_layer.py lines 39-71)
\* ----------------------------------------------------------------------
\* `(row.get(f) or "").strip()` raises AttributeError for a truthy value
\* that has no strip method
NormalizeRaises(row) == row.store_name = NonStr \/ row.image_local_path = NonStr

NormalizeOutputRow(row) ==
    [input_keyword |-> row.input_keyword,
     product_url |-> row.product_url,
     store_name |-> row.store_name,
     image_local_path |-> row.image_local_path]

\* app.py lines 198-211, one record of top per step
NormalizeStep ==
    /\ pc = "normalize"
    /\ UNCHANGED auxVars
    /\ UNCHANGED tabVars
    /\ IF NormalizeRaises(top[tIdx])
       THEN /\ callerExc' = "AttributeError"
            /\ pc' = "kw_except"
            /\ UNCHANGED << all_rows, kw, started, sAttempt, page, blockedSeen,
                            navAfterBlocked, attemptExc, cards, candidates, detailVars,
                            top, tIdx >>
       ELSE /\ all_rows' = Append(all_rows, NormalizeOutputRow(top[tIdx]))
            /\ IF tIdx < Len(top)
               THEN /\ tIdx' = tIdx + 1
                    /\ UNCHANGED << pc, kw, started, searchVars, detailVars, top >>
               ELSE NextKeyword
    /\ UNCHANGED << config, page_created, handlersRun, searchEnd, ret >>

\* ----------------------------------------------------------------------
\* export and exit of run_pipeline
\* ----------------------------------------------------------------------
\* app.py lines 230-236
ExportFailureReturnNoRows(rows) == [kind |-> "return", rows |-> << >>, excel_bytes |-> "none"]

ExportFailureReturn(rows) == [kind |-> "return", rows |-> rows, excel_bytes |-> "none"]

\* app.py lines 213-236 and the finally clause
Export ==
    /\ pc = "export"
    /\ UNCHANGED auxVars
    /\ UNCHANGED tabVars
    /\ \E export_ok \in BOOLEAN :
         ret' = IF export_ok
                THEN [kind |-> "return", rows |-> all_rows, excel_bytes |-> "bytes"]
                ELSE ExportFailureReturn(all_rows)
    /\ pc' = "returned"
    /\ UNCHANGED << config, page_created, kw, started, all_rows, handlersRun, searchEnd,
                    searchVars, detailVars, top, tIdx >>

\* app.py lines 238-254
FatalExcept ==
    /\ pc = "fatal"
    /\ UNCHANGED auxVars
    /\ UNCHANGED tabVars
    /\ ret' = [kind |-> "raise", rows |-> << >>, excel_bytes |-> "none"]
    /\ pc' = "raised"
    /\ UNCHANGED << config, page_created, kw, started, all_rows, handlersRun, searchEnd,
                    searchVars, detailVars, top, tIdx >>

Next ==
    \/ CreatePage
    \/ SearchGoto
    \/ SearchCheck
    \/ SearchWaitList
    \/ SearchCards
    \/ AfterSearch
    \/ KeywordExcept
    \/ DetailOpenTab
    \/ DetailBody
    \/ DetailCaller
    \/ AfterDetail
    \/ MediaStep
    \/ NormalizeStep
    \/ Export
    \/ FatalExcept

Spec == Init /\ [][Next]_vars

\* every step of run_pipeline is a blocking call with a timeout, so the
\* single thread of control always takes its next step
FairSpec == Spec /\ WF_vars(Next)

\* ----------------------------------------------------------------------
\* ranking_layer.py
\* ----------------------------------------------------------------------
\* A product record carries the fields the ranking reads: product_name as
\* the set of its tokens (_tokenize; the empty set is the empty name),
\* price as a number (0 stands for a missing or non-positive price) and
\* store_name. product_url, image_url and description are non-empty in
\* every record. Scores and percentiles are kept as exact fractions.
HardMinPrice == 500

HardMaxPrice == 200000000

IqrMinRecords == 8

IqrMinValues == 4

CompletenessFields == 6

\* lines 50-56
extract_prices(products) ==
    SelectSeq([i \in 1..Len(products) |-> products[i].price], LAMBDA v : v > 0)

\* pct(quarters / 4) of lines 65-71, times 4, on the sorted values
Pct4(vals, quarters) ==
    LET k4 == (Len(vals) - 1) * quarters
        f == k4 \div 4
        rem == k4 % 4
    IN IF rem = 0 THEN 4 * vals[f + 1]
       ELSE vals[f + 1] * (4 - rem) + vals[f + 2] * rem

\* lines 59-78: the bounds times 8; unbounded stands for high = inf
iqr_bounds(values) ==
    LET vals == SortSeq(values, LAMBDA a, b : a < b)
    IN IF Len(vals) < IqrMinValues
       THEN [low8 |-> 0, high8 |-> 0, unbounded |-> TRUE]
       ELSE LET q1 == Pct4(vals, 1)
                q3 == Pct4(vals, 3)
                iqr == q3 - q1
                lo == 2 * q1 - 3 * iqr
            IN [low8 |-> IF lo > 0 THEN lo ELSE 0,
                high8 |-> 2 * q3 + 3 * iqr,
                unbounded |-> FALSE]

\* line 93: price < low or price > high
OutsideIqr(price, b) ==
    \/ 8 * price < b.low8
    \/ ~b.unbounded /\ 8 * price > b.high8

\* line 93: the outlier test is applied from 8 priced records on
IqrAppliesWhenBoundsExist(n) == n >= IqrMinValues

IqrApplies(n) == n >= IqrMinRecords

\* lines 85-98: the indices of the products kept in `filtered`
Filtered(products) ==
    LET prices == extract_prices(products)
        b == iqr_bounds(prices)
        keep(i) ==
            LET price == products[i].price
            IN ~( /\ price > 0
                  /\ \/ IqrApplies(Len(prices)) /\ OutsideIqr(price, b)
                     \/ price < HardMinPrice
                     \/ price > HardMaxPrice )
    IN SelectSeq([i \in 1..Len(products) |-> i], keep)

\* lines 26-33: Jaccard overlap of the token sets
relevance_score(kw_t, nm_t) ==
    IF kw_t = {} \/ nm_t = {} THEN [num |-> 0, den |-> 1]
    ELSE [num |-> Cardinality(kw_t \cap nm_t), den |-> Cardinality(kw_t \cup nm_t)]

\* lines 36-47
completeness_score(p) ==
    [num |-> (IF p.product_name # {} THEN 1 ELSE 0)
             + (IF p.price > 0 THEN 1 ELSE 0)
             + (IF p.store_name # "" THEN 1 ELSE 0)
             + 3,
     den |-> CompletenessFields]

\* line 105: 0.75 * rel + 0.25 * comp
Score(kw_t, p) ==
    LET rel == relevance_score(kw_t, p.product_name)
        comp == completeness_score(p)
    IN [num |-> 3 * rel.num * comp.den + rel.den * comp.num,
        den |-> 4 * rel.den * comp.den]

ScoreGE(a, b) == a.num * b.den >= b.num * a.den

ScoreGT(a, b) == a.num * b.den > b.num * a.den

\* line 108: list.sort(key=..., reverse=True) is stable, an element stays
\* behind every earlier element whose key is not smaller
InsertBeforeTies(sorted, x, key) ==
    LET pos == Cardinality({i \in 1..Len(sorted) : ScoreGT(key[sorted[i]], key[x])})
    IN SubSeq(sorted, 1, pos) \o << x >> \o SubSeq(sorted, pos + 1, Len(sorted))

InsertAfterTies(sorted, x, key) ==
    LET pos == Cardinality({i \in 1..Len(sorted) : ScoreGE(key[sorted[i]], key[x])})
    IN SubSeq(sorted, 1, pos) \o << x >> \o SubSeq(sorted, pos + 1, Len(sorted))

RECURSIVE SortByScore(_, _, _)
SortByScore(idxs, key, acc) ==
    IF idxs = << >> THEN acc
    ELSE SortByScore(Tail(idxs), key, InsertAfterTies(acc, Head(idxs), key))

\* lines 100-109: the indices of the returned products, in returned order
RankOrder(kw_t, products, filtered, top_n) ==
    LET key == [i \in 1..Len(products) |-> Score(kw_t, products[i])]
    IN Truncate(SortByScore(filtered, key, << >>), top_n)

\* lines 81-109
rank_and_select_top_n(kw_t, products, top_n) ==
    IF products = << >> THEN << >>
    ELSE LET order == RankOrder(kw_t, products, Filtered(products), top_n)
         IN [i \in 1..Len(order) |-> products[order[i]]]

\* the inputs of the exercised calls: short lists of records that differ in
\* name, price and store, and long lists of priced records
MaxRankRecords == 3

MaxPricedRecords == 8

RankKeyword == {"sepatu", "pria"}

NameTokenSets == {{}, {"sepatu"}, {"sepatu", "merah"}}

RankItems ==
    [product_name : NameTokenSets, price : {0, 100, 1000, 300000000},
     store_name : StoreNameValues]

PricedItems ==
    [product_name : {{"sepatu"}}, price : {100, 1000, 100000}, store_name : {"toko"}]

DefaultTopN == 5

TopNValues == {1, 2, DefaultTopN}

RankInit ==
    /\ PipeIdle
    /\ LateIdle
    /\ \E products \in SeqsUpTo(RankItems, MaxRankRecords)
                         \cup SeqsUpTo(PricedItems, MaxPricedRecords) :
       \E top_n \in TopNValues :
         rank_call = [kind |-> "call", keyword |-> RankKeyword, products |-> products,
                      top_n |-> top_n]
    /\ rank_result = NoCall
    /\ UrlIdle
    /\ ImgIdle

\* lines 82-98
RankFilter ==
    /\ rank_call.kind = "call"
    /\ rank_result.kind = "none"
    /\ rank_result' =
          IF rank_call.products = << >>
          THEN [kind |-> "return", filtered |-> << >>, order |-> << >>]
          ELSE [kind |-> "filtered", filtered |-> Filtered(rank_call.products),
                order |-> << >>]
    /\ UNCHANGED << pipeVars, lateVars, rank_call, urlVars, imgVars >>

\* lines 100-109
RankSort ==
    /\ rank_result.kind = "filtered"
    /\ rank_result' =
          [rank_result EXCEPT
             !.kind = "return",
             !.order = RankOrder(rank_call.keyword, rank_call.products,
                                 rank_result.filtered, rank_call.top_n)]
    /\ UNCHANGED << pipeVars, lateVars, rank_call, urlVars, imgVars >>

RankNext ==
    \/ RankFilter
    \/ RankSort

RankSpec == RankInit /\ [][RankNext]_vars

\* ----------------------------------------------------------------------
\* _looks_like_product_url (search_layer.py lines 77-157)
\* ----------------------------------------------------------------------
\* A URL is modelled by its host ("" for a URL without scheme and host),
\* the non-empty segments of its path and whether the path ends with "/".
\* The empty string is the URL with host "", no segment and no slash.
MaxSegments == 3

Hosts == {"", "www.tokopedia.com", "example.com"}

PathSegments == {"p", "search", "Cart", "toko", "sepatu", "kategori", "researchkit"}

UrlInputs ==
    [host : Hosts, segments : SeqsUpTo(PathSegments, MaxSegments), trailing : BOOLEAN]

\* lines 87-106
NON_PRODUCT_FIRST_SEGMENTS ==
    {"search", "cart", "help", "promo", "discover", "blog", "about", "careers", "mitra",
     "seller", "admin", "events", "ta", "login", "register", "oauth", "category",
     "kategori"}

\* str.lower() on the segments of the model
Lower(seg) == IF seg = "Cart" THEN "cart" ELSE seg

\* "search" in seg.lower()
HasSearch(seg) == Lower(seg) \in {"search", "researchkit"}

IsEmptyUrl(url) == url.host = "" /\ url.segments = << >> /\ ~url.trailing

\* lines 77-84: a URL that starts with "/" is put on the base URL
normalize_url(url) ==
    IF url.host = "" /\ ~IsEmptyUrl(url) THEN [url EXCEPT !.host = "www.tokopedia.com"]
    ELSE url

\* line 137: "p" in segments and "/p/" in path
HasLegacyP(url) ==
    /\ \E i \in 1..Len(url.segments) : url.segments[i] = "p"
    /\ \E i \in 1..Len(url.segments) :
          url.segments[i] = "p" /\ (i < Len(url.segments) \/ url.trailing)

\* lines 140-157, for a URL with at least one segment and no legacy /p/
LooksLikeShopProduct(url) ==
    /\ Len(url.segments) >= 2
    /\ Lower(url.segments[1]) \notin NON_PRODUCT_FIRST_SEGMENTS
    /\ Lower(url.segments[2]) \notin {"category", "kategori"}
    /\ \A i \in 1..Len(url.segments) : ~HasSearch(url.segments[i])

UrlInit ==
    /\ PipeIdle
    /\ LateIdle
    /\ RankIdle
    /\ ImgIdle
    /\ \E url \in UrlInputs : url_call = [kind |-> "call", url |-> url]
    /\ url_result = NoCall

\* lines 114-135: empty URL, normalization, host and path tests
UrlParse ==
    /\ url_call.kind = "call"
    /\ url_result.kind = "none"
    /\ LET u == normalize_url(url_call.url)
       IN url_result' =
            IF \/ IsEmptyUrl(url_call.url)
               \/ u.host # "www.tokopedia.com"
               \/ u.segments = << >>
            THEN [kind |-> "return", accepted |-> FALSE, u |-> u]
            ELSE [kind |-> "parsed", accepted |-> FALSE, u |-> u]
    /\ UNCHANGED << pipeVars, lateVars, rankVars, url_call, imgVars >>

\* lines 136-157: the legacy /p/ test, then the shop/product shape
UrlClassify ==
    /\ url_result.kind = "parsed"
    /\ url_result' =
          [url_result EXCEPT
             !.kind = "return",
             !.accepted = HasLegacyP(url_result.u) \/ LooksLikeShopProduct(url_result.u)]
    /\ UNCHANGED << pipeVars, lateVars, rankVars, url_call, imgVars >>

UrlNext ==
    \/ UrlParse
    \/ UrlClassify

UrlSpec == UrlInit /\ [][UrlNext]_vars

\* ----------------------------------------------------------------------
\* download_product_images (image_layer.py lines 127-199), called
\* repeatedly with the same arguments
\* ----------------------------------------------------------------------
MaxImageUrls == 2

MaxImageCalls == 2

ImageUrls ==
    {"", "ftp://cdn.io/a.jpg", "https://cdn", "https://cdn.io/200x200/a.jpg",
     "https://cdn.io/2000x2000/a.jpg", "https://cdn.io/b.jpg"}

Scheme(url) ==
    IF url = "" THEN ""
    ELSE IF url = "ftp://cdn.io/a.jpg" THEN "ftp"
    ELSE "https"

\* the host part is a dotted domain name, localhost or an IPv4 address
HasHostPattern(url) == url \notin {"", "https://cdn"}

\* helpers.py lines 154-176
ValidateNonEmptyOnly(url) == url # ""

validate_image_url(url) ==
    /\ url # ""
    /\ Scheme(url) \in {"http", "https"}
    /\ HasHostPattern(url)

\* lines 30-48: the size in the path is replaced by IMAGE_UPSCALE_SIZE
upscale_image_url(url) ==
    IF url = "https://cdn.io/200x200/a.jpg" THEN "https://cdn.io/2000x2000/a.jpg"
    ELSE url

\* lines 154-156: the file of the URL at enumerate index i; the name holds
\* the index and the md5 prefix of the up-scaled URL
OutPath(i, url) == << i, upscale_image_url(url) >>

\* lines 137-143: dedupe, first occurrence kept, empty strings dropped
DedupeUrls(image_urls) ==
    LET first == SelectSeq([i \in 1..Len(image_urls) |-> i],
                           LAMBDA i : /\ image_urls[i] # ""
                                      /\ \A j \in 1..(i - 1) : image_urls[j] # image_urls[i])
    IN [k \in 1..Len(first) |-> image_urls[first[k]]]

\* the files of the directory: absent, or present and "empty" (0 bytes),
\* "partial" (part of a response body) or "complete" (a whole body)
FileState(d, path) == IF path \in DOMAIN d THEN d[path] ELSE "absent"

WriteFile(d, path, state) ==
    [q \in DOMAIN d \cup {path} |-> IF q = path THEN state ELSE d[q]]

Unlink(d, path) == [q \in DOMAIN d \ {path} |-> d[q]]

\* lines 158 and 191: out_path.exists() and out_path.stat().st_size > 0
ExistsNonEmptyNever(state) == FALSE

ExistsNonEmpty(state) == state \in {"partial", "complete"}

\* lines 169-197: how the request for one URL can go
FetchOutcomes ==
    {"non200", "request_exception", "stream_exception_empty", "stream_exception_partial",
     "too_big", "ok_empty", "ok"}

\* the file after the fetch. Exceeding the cap unlinks the file while it
\* is open for writing, and an exception of unlink is swallowed (lines
\* 185-189): where unlinking an open file fails the chunks written stay.
DiskAfterFetch(d, path, outcome, unlink_ok) ==
    CASE outcome \in {"non200", "request_exception"} -> d
      [] outcome \in {"stream_exception_empty", "ok_empty"} -> WriteFile(d, path, "empty")
      [] outcome = "stream_exception_partial" -> WriteFile(d, path, "partial")
      [] outcome = "too_big" -> IF unlink_ok THEN Unlink(d, path)
                                ELSE WriteFile(d, path, "partial")
      [] outcome = "ok" -> WriteFile(d, path, "complete")

ImgInit ==
    /\ PipeIdle
    /\ LateIdle
    /\ RankIdle
    /\ UrlIdle
    /\ \E image_urls \in SeqsUpTo(ImageUrls, MaxImageUrls) :
         img_call = [kind |-> "call", image_urls |-> image_urls, no |-> 1]
    /\ img_pc = "start"
    /\ urls = << >>
    /\ idx = 0
    /\ saved = << >>
    /\ requested = {}
    /\ reused = {}
    /\ last_fetch = NoFetch
    /\ prev_saved = << >>
    /\ disk = << >>

\* lines 133-146
ImgStart ==
    /\ img_pc = "start"
    /\ saved' = << >>
    /\ requested' = {}
    /\ reused' = {}
    /\ last_fetch' = NoFetch
    /\ IF img_call.image_urls = << >>
       THEN /\ img_pc' = "returned"
            /\ urls' = << >>
            /\ idx' = 0
       ELSE /\ img_pc' = "loop"
            /\ urls' = DedupeUrls(img_call.image_urls)
            /\ idx' = 1
    /\ UNCHANGED << pipeVars, lateVars, rankVars, urlVars, img_call, prev_saved, disk >>

\* lines 148-197: one iteration of the loop
ImgUrl ==
    /\ img_pc = "loop"
    /\ idx <= Len(urls)
    /\ idx' = idx + 1
    /\ LET out_path == OutPath(idx, urls[idx])
       IN IF ~validate_image_url(urls[idx])
          THEN UNCHANGED << saved, requested, reused, last_fetch, disk >>
          ELSE IF ExistsNonEmpty(FileState(disk, out_path))
          THEN /\ saved' = Append(saved, out_path)
               /\ reused' = reused \cup {idx}
               /\ UNCHANGED << requested, last_fetch, disk >>
          ELSE \E outcome \in FetchOutcomes, unlink_ok \in BOOLEAN :
                 /\ requested' = requested \cup {idx}
                 /\ last_fetch' = [idx |-> idx, outcome |-> outcome]
                 /\ disk' = DiskAfterFetch(disk, out_path, outcome, unlink_ok)
                 /\ saved' = IF outcome = "ok" THEN Append(saved, out_path) ELSE saved
                 /\ UNCHANGED reused
    /\ UNCHANGED << pipeVars, lateVars, rankVars, urlVars, img_call, img_pc, urls, prev_saved >>

\* line 199
ImgReturn ==
    /\ img_pc = "loop"
    /\ idx > Len(urls)
    /\ img_pc' = "returned"
    /\ UNCHANGED << pipeVars, lateVars, rankVars, urlVars, img_call, urls, idx, saved, requested,
                    reused, last_fetch, prev_saved, disk >>

\* the caller runs the same call once more
ImgCallAgain ==
    /\ img_pc = "returned"
    /\ img_call.no < MaxImageCalls
    /\ img_call' = [img_call EXCEPT !.no = @ + 1]
    /\ prev_saved' = saved
    /\ img_pc' = "start"
    /\ UNCHANGED << pipeVars, lateVars, rankVars, urlVars, urls, idx, saved, requested, reused,
                    last_fetch, disk >>

ImgNext ==
    \/ ImgStart
    \/ ImgUrl
    \/ ImgReturn
    \/ ImgCallAgain

ImgSpec == ImgInit /\ [][ImgNext]_vars

\* ----------------------------------------------------------------------
\* normalize_keywords (helpers.py lines 12-59), on lists of raw keywords.
\* A keyword is the sequence of its characters: a letter, its upper case,
\* a blank, a special symbol, a hyphen.
\* ----------------------------------------------------------------------
MaxRawKeywords == 3

\* raw keywords as a caller can pass them: empty, blank, a letter in either
\* case, with a special symbol, padded, with a run of blanks, with a hyphen
RawKeywords ==
    { << >>,
      << " " >>,
      << "a" >>,
      << "A" >>,
      << "!" >>,
      << "a", "a" >>,
      << "a", "!" >>,
      << " ", "a", " " >>,
      << "a", " ", "a" >>,
      << "a", " ", " ", "A" >>,
      << "a", "-", "a" >> }

IsSpace(c) == c = " "

\* \w of the regular expressions
IsWord(c) == c \in {"a", "A"}

\* str.strip()
Strip(s) ==
    LET solid == { i \in 1..Len(s) : ~IsSpace(s[i]) }
    IN IF solid = {} THEN << >>
       ELSE SubSeq(s, CHOOSE i \in solid : \A j \in solid : i <= j,
                      CHOOSE i \in solid : \A j \in solid : j <= i)

\* str.lower()
LowerChars(s) == [i \in 1..Len(s) |-> IF s[i] = "A" THEN "a" ELSE s[i]]

\* line 31: re.sub(r'[^\w\s-]', '', keyword)
RemoveSpecial(s) == SelectSeq(s, LAMBDA c : IsWord(c) \/ IsSpace(c) \/ c = "-")

\* line 34: re.sub(r'\s+', ' ', keyword)
CollapseSpaces(s) ==
    LET first == SelectSeq([i \in 1..Len(s) |-> i],
                           LAMBDA i : ~IsSpace(s[i]) \/ i = 1 \/ ~IsSpace(s[i - 1]))
    IN [k \in 1..Len(first) |-> s[first[k]]]

\* lines 12-36
normalize_keyword(k) ==
    IF k = << >> THEN << >>
    ELSE Strip(CollapseSpaces(RemoveSpecial(LowerChars(Strip(k)))))

\* the variables of the other parts of the model
kwOthers == << pipeVars, rankVars, urlVars, imgVars, nrVars, sessVars, mgVars, csVars >>

\* line 54: `if kw and kw not in seen`
KeepsKeywordNonEmpty(k, seen_set) == k # << >>

KeepsKeyword(k, seen_set) == k # << >> /\ k \notin seen_set

NkInit ==
    /\ PipeIdle
    /\ RankIdle
    /\ UrlIdle
    /\ ImgIdle
    /\ NrIdle
    /\ SessIdle
    /\ MgIdle
    /\ CsIdle
    /\ keywords \in SeqsUpTo(RawKeywords, MaxRawKeywords)
    /\ nk_pc = "start"
    /\ normalized = << >>
    /\ nk_pos = 0
    /\ nk_seen = {}
    /\ unique = << >>

\* lines 49-52
NkStart ==
    /\ nk_pc = "start"
    /\ normalized' =
         LET truthy == SelectSeq(keywords, LAMBDA k : k # << >>)
         IN [i \in 1..Len(truthy) |-> normalize_keyword(truthy[i])]
    /\ nk_seen' = {}
    /\ unique' = << >>
    /\ nk_pos' = 1
    /\ nk_pc' = "loop"
    /\ UNCHANGED << kwOthers, keywords >>

\* lines 53-56: one iteration of the loop
NkStep ==
    /\ nk_pc = "loop"
    /\ nk_pos <= Len(normalized)
    /\ nk_pos' = nk_pos + 1
    /\ IF KeepsKeyword(normalized[nk_pos], nk_seen)
       THEN /\ nk_seen' = nk_seen \cup {normalized[nk_pos]}
            /\ unique' = Append(unique, normalized[nk_pos])
       ELSE UNCHANGED << nk_seen, unique >>
    /\ UNCHANGED << kwOthers, keywords, nk_pc, normalized >>

\* line 58
NkReturn ==
    /\ nk_pc = "loop"
    /\ nk_pos > Len(normalized)
    /\ nk_pc' = "returned"
    /\ UNCHANGED << kwOthers, keywords, normalized, nk_pos,
                    nk_seen, unique >>

NkNext ==
    \/ NkStart
    \/ NkStep
    \/ NkReturn

NkSpec == NkInit /\ [][NkNext]_vars

\* ----------------------------------------------------------------------
\* normalize_output_row (normalization_layer.py lines 28-71), on the
\* records run_pipeline hands to it. A value is tagged with its Python
\* type; a dict is the list of its items in insertion order.
\* ----------------------------------------------------------------------
OUTPUT_SCHEMA ==
    << "input_keyword", "product_name", "description", "price", "currency", "image_url",
       "image_local_path", "image_urls", "image_local_paths", "store_name", "product_url",
       "source_site", "scraped_at" >>

Missing == [t |-> "missing"]

None == [t |-> "none"]

Str(s) == [t |-> "str", v |-> s]

List(l) == [t |-> "list", v |-> l]

Num(n) == [t |-> "num", v |-> n]

\* what the steps before normalization can leave in a text field
TextValues == {Missing, Str(""), Str(" x ")}

\* store_name is the one field a detail page can fill with a non-str
StoreValues == TextValues \cup {Num(7)}

PriceValues ==
    {Missing, None, Str(""), Str("Rp 1.000"), Str("$5"), Str("abc"), Num(1000)}

CurrencyValues == {Missing, Str(""), Str("USD")}

ListValues == {Missing, List(<< >>), List(<< " u ", " ", "v" >>)}

\* the variables of the other parts of the model
nrOthers == << pipeVars, rankVars, urlVars, imgVars, kwVars, sessVars, mgVars, csVars >>

\* dict.get(key)
Get(d, key) == IF d[key] = Missing THEN None ELSE d[key]

\* the truth value of a Python object
Truthy(val) ==
    CASE val.t = "none" -> FALSE
      [] val.t = "str" -> val.v # ""
      [] val.t = "list" -> val.v # << >>
      [] val.t = "num" -> val.v # 0

\* str.strip() on the texts of the model
StripText(s) ==
    CASE s = " x " -> "x"
      [] s = " u " -> "u"
      [] s = " " -> ""
      [] OTHER -> s

\* helpers.py lines 100-123, on the price texts of the model
extract_price_number(text) ==
    CASE text = "Rp 1.000" -> Num(1000)
      [] text = "$5" -> Num(5)
      [] OTHER -> None

\* helpers.py lines 126-147, on the price texts of the model
extract_currency(text) ==
    IF text = "" THEN "IDR"
    ELSE IF text = "Rp 1.000" THEN "IDR"
    ELSE IF text = "$5" THEN "USD"
    ELSE "IDR"

\* str(value)
StrOf(val) ==
    CASE val.t = "none" -> "None"
      [] val.t = "num" -> "1000"
      [] OTHER -> val.v

\* "\n".join(texts)
Join(texts) ==
    CASE texts = << >> -> ""
      [] Len(texts) = 1 -> texts[1]
      [] texts = << "u", "v" >> -> "u\nv"

\* lines 52-64: (row.get(key) or default).strip()
TextOut(d, key, default) ==
    IF Truthy(Get(d, key)) THEN Str(StripText(Get(d, key).v)) ELSE Str(StripText(default))

\* .strip() is called on a truthy value that is not a str
TextRaises(d, key) == Truthy(Get(d, key)) /\ Get(d, key).t # "str"

\* lines 28-36
list_to_newline_text(val) ==
    CASE val.t = "none" -> Str("")
      [] val.t = "list" ->
           Str(Join(SelectSeq([i \in 1..Len(val.v) |-> StripText(val.v[i])],
                              LAMBDA x : x # "")))
      [] OTHER -> Str(StripText(val.v))

\* lines 40-42 and 49
PriceOut(d) ==
    LET got == Get(d, "price")
        price_val == IF got.t = "num" THEN got
                     ELSE IF got.t = "str" /\ StripText(got.v) # ""
                          THEN extract_price_number(got.v)
                          ELSE None
    IN IF price_val = None THEN None ELSE [t |-> "float", v |-> price_val.v]

\* lines 44-46
CurrencyOut(d) ==
    LET currency == IF Truthy(Get(d, "currency")) THEN Get(d, "currency").v
                    ELSE extract_currency(StrOf(IF d["price"] = Missing THEN Str("")
                                                ELSE d["price"]))
    IN Str(IF currency = "" THEN "IDR" ELSE currency)

\* lines 51-65: the keys of the dict literal, in its order
OutLiteralKeysLegacy ==
    << "input_keyword", "product_name", "description", "price", "currency", "image_url",
       "image_local_path", "store_name", "product_url", "source_site", "scraped_at" >>

OutLiteralKeys ==
    << "input_keyword", "product_name", "description", "price", "currency", "image_url",
       "image_local_path", "image_urls", "image_local_paths", "store_name", "product_url",
       "source_site", "scraped_at" >>

\* lines 51-65: the value of one item of the literal
OutValue(d, key) ==
    CASE key = "price" -> PriceOut(d)
      [] key = "currency" -> CurrencyOut(d)
      [] key \in {"image_urls", "image_local_paths"} -> list_to_newline_text(Get(d, key))
      [] key = "source_site" -> TextOut(d, key, "tokopedia")
      [] OTHER -> TextOut(d, key, "")

TextKeys ==
    {"input_keyword", "product_name", "description", "image_url", "image_local_path",
     "store_name", "product_url", "source_site", "scraped_at"}

KeysOf(items) == { items[i][1] : i \in 1..Len(items) }

\* dict.setdefault(key, default) for each key of a list, in its order
RECURSIVE SetDefaults(_, _, _)
SetDefaults(items, keys_left, default) ==
    IF keys_left = << >> THEN items
    ELSE SetDefaults(IF Head(keys_left) \in KeysOf(items) THEN items
                     ELSE Append(items, << Head(keys_left), default >>),
                     Tail(keys_left), default)

\* app.py lines 125-128 and 149-196: input_keyword, source_site and
\* scraped_at are set by run_pipeline; the other fields are what search,
\* detail and download left
NrInit ==
    /\ PipeIdle
    /\ RankIdle
    /\ UrlIdle
    /\ ImgIdle
    /\ KwIdle
    /\ SessIdle
    /\ MgIdle
    /\ CsIdle
    /\ \E product_name, description, image_url, image_local_path, product_url \in TextValues,
          store_name \in StoreValues, price \in PriceValues, currency \in CurrencyValues,
          image_urls, image_local_paths \in ListValues :
         nr_row = [input_keyword |-> Str("x"),
                   product_name |-> product_name,
                   description |-> description,
                   price |-> price,
                   currency |-> currency,
                   image_url |-> image_url,
                   image_local_path |-> image_local_path,
                   image_urls |-> image_urls,
                   image_local_paths |-> image_local_paths,
                   store_name |-> store_name,
                   product_url |-> product_url,
                   source_site |-> Str("tokopedia"),
                   scraped_at |-> Str("2026-01-01T00:00:00")]
    /\ nr_pc = "start"
    /\ out = << >>

\* lines 40-65
NrBuild ==
    /\ nr_pc = "start"
    /\ IF \E key \in TextKeys : TextRaises(nr_row, key)
       THEN /\ nr_pc' = "raised"
            /\ out' = << >>
       ELSE /\ nr_pc' = "built"
            /\ out' = [i \in 1..Len(OutLiteralKeys) |->
                         << OutLiteralKeys[i], OutValue(nr_row, OutLiteralKeys[i]) >>]
    /\ UNCHANGED << nrOthers, nr_row >>

\* lines 68-71
NrSetDefaults ==
    /\ nr_pc = "built"
    /\ out' = SetDefaults(out, OUTPUT_SCHEMA, Str(""))
    /\ nr_pc' = "returned"
    /\ UNCHANGED << nrOthers, nr_row >>

NrNext ==
    \/ NrBuild
    \/ NrSetDefaults

NrSpec == NrInit /\ [][NrNext]_vars

\* ----------------------------------------------------------------------
\* The session module utils/browser.py: get_browser_context, init_browser,
\* close_browser, reset_browser and create_page, called by several threads.
\* A statement that runs under _lock is one step; what a call into
\* Playwright or SeleniumBase does (return or raise) is chosen freely.
\* ----------------------------------------------------------------------
Threads == 1..NumThreads

SessionFunctions ==
    {"get_browser_context", "init_browser", "close_browser", "reset_browser", "create_page"}

\* the variables of the other parts of the model
sessOthers == << pipeVars, rankVars, urlVars, imgVars, kwVars, nrVars, mgVars, csVars >>

\* the position a call of the function starts at
Entry(f) ==
    CASE f = "get_browser_context" -> "g_lock"
      [] f = "init_browser" -> "i_lock"
      [] f = "close_browser" -> "c_lock"
      [] f = "reset_browser" -> "r_lock"
      [] f = "create_page" -> "p_get"

\* threading.RLock (line 40): free, or held by the thread that asks
CanAcquireNonReentrant(t) == lock.owner = 0

CanAcquire(t) == lock.owner \in {0, t}

Acquired(t) == [owner |-> t, depth |-> lock.depth + 1]

\* the end of a `with _lock:` block, by return or by exception
Released ==
    IF lock.depth = 1 THEN [owner |-> 0, depth |-> 0]
    ELSE [lock EXCEPT !.depth = @ - 1]

\* the id of a newly created driver or context
NewId(used) == CHOOSE i \in 1..(Cardinality(used) + 1) : i \notin used

\* where the thread continues when the function on top of its stack
\* returns (raised = FALSE) or raises
ReturnTo(stack, raised) ==
    IF Len(stack) = 1 THEN "idle"
    ELSE CASE stack[Len(stack) - 1] = "get_browser_context" ->
                IF raised THEN "g_raise" ELSE "g_new_context"
           [] stack[Len(stack) - 1] = "reset_browser" -> "r_clear"
           [] stack[Len(stack) - 1] = "create_page" ->
                IF raised THEN "p_raise" ELSE "p_page"

Return(t, raised) ==
    /\ t_pc' = [t_pc EXCEPT ![t] = ReturnTo(t_stack[t], raised)]
    /\ t_stack' = [t_stack EXCEPT ![t] = SubSeq(@, 1, Len(@) - 1)]

CallFrom(t, f) ==
    /\ t_pc' = [t_pc EXCEPT ![t] = Entry(f)]
    /\ t_stack' = [t_stack EXCEPT ![t] = Append(@, f)]

Goto(t, position) ==
    /\ t_pc' = [t_pc EXCEPT ![t] = position]
    /\ UNCHANGED t_stack

\* the threads start with the module freshly imported; run_pipeline's
\* switch SKIP_CAPTCHA_CHECK is either way
SessInit ==
    /\ PipeInit
    /\ ~enable_image_download
    /\ RankIdle
    /\ UrlIdle
    /\ ImgIdle
    /\ KwIdle
    /\ NrIdle
    /\ MgIdle
    /\ CsIdle
    /\ SessImported
    /\ seleniumbase_available \in BOOLEAN
    /\ calls_made = 0

\* a thread calls a function of the module
SessCall(t) ==
    /\ t_pc[t] = "idle"
    /\ calls_made < MaxSessionCalls
    /\ \E f \in SessionFunctions : CallFrom(t, f)
    /\ calls_made' = calls_made + 1
    /\ t_attempt' = [t_attempt EXCEPT ![t] = 0]
    /\ UNCHANGED << sessOthers, seleniumbase_available, g_sb, g_browser, g_context, g_playwright, lock,
                    t_ret, drivers, contexts, teardowns, state_file >>

\* line 173
GetLock(t) ==
    /\ t_pc[t] = "g_lock"
    /\ CanAcquire(t)
    /\ lock' = Acquired(t)
    /\ Goto(t, "g_check")
    /\ UNCHANGED << sessOthers, seleniumbase_available, g_sb, g_browser, g_context, g_playwright,
                    t_attempt, calls_made, t_ret, drivers, contexts, teardowns, state_file >>

\* lines 174-204 and 273: an existing context is returned; otherwise the
\* driver is started unless _playwright is set
GetCheck(t) ==
    /\ t_pc[t] = "g_check"
    /\ IF g_context # 0
       THEN /\ t_ret' = [t_ret EXCEPT ![t] = [ctx |-> g_context, epoch |-> teardowns]]
            /\ lock' = Released
            /\ Return(t, FALSE)
            /\ UNCHANGED << g_playwright, drivers >>
       ELSE IF g_playwright # 0
       THEN /\ Goto(t, "g_launch")
            /\ UNCHANGED << g_playwright, drivers, lock, t_ret >>
       ELSE \E driver_started \in BOOLEAN :
              IF driver_started
              THEN /\ g_playwright' = NewId(drivers)
                   /\ drivers' = drivers \cup {NewId(drivers)}
                   /\ Goto(t, "g_launch")
                   /\ UNCHANGED << lock, t_ret >>
              ELSE /\ lock' = Released
                   /\ Return(t, TRUE)
                   /\ UNCHANGED << g_playwright, drivers, t_ret >>
    /\ UNCHANGED << sessOthers, seleniumbase_available, g_sb, g_browser, g_context, t_attempt, calls_made,
                    contexts, teardowns, state_file >>

\* lines 220-264: launch_persistent_context returns the context, or raises
\* and init_browser is called
GetLaunch(t) ==
    /\ t_pc[t] = "g_launch"
    /\ \E launched \in BOOLEAN :
         IF launched
         THEN /\ g_context' = NewId(contexts)
              /\ contexts' = contexts \cup {NewId(contexts)}
              /\ t_ret' = [t_ret EXCEPT ![t] = [ctx |-> NewId(contexts), epoch |-> teardowns]]
              /\ lock' = Released
              /\ Return(t, FALSE)
              /\ UNCHANGED t_attempt
         ELSE /\ CallFrom(t, "init_browser")
              /\ t_attempt' = [t_attempt EXCEPT ![t] = 0]
              /\ UNCHANGED << g_context, contexts, t_ret, lock >>
    /\ UNCHANGED << sessOthers, seleniumbase_available, g_sb, g_browser, g_playwright, calls_made, drivers,
                    teardowns, state_file >>

\* lines 265-273: browser.new_context() of the fallback
GetNewContext(t) ==
    /\ t_pc[t] = "g_new_context"
    /\ \E created \in BOOLEAN :
         IF created
         THEN /\ g_context' = NewId(contexts)
              /\ contexts' = contexts \cup {NewId(contexts)}
              /\ t_ret' = [t_ret EXCEPT ![t] = [ctx |-> NewId(contexts), epoch |-> teardowns]]
              /\ Return(t, FALSE)
         ELSE /\ Return(t, TRUE)
              /\ UNCHANGED << g_context, contexts, t_ret >>
    /\ lock' = Released
    /\ UNCHANGED << sessOthers, seleniumbase_available, g_sb, g_browser, g_playwright, t_attempt,
                    calls_made, drivers, teardowns, state_file >>

\* line 264: the RetryError of init_browser leaves the `with` block
GetRaise(t) ==
    /\ t_pc[t] = "g_raise"
    /\ lock' = Released
    /\ Return(t, TRUE)
    /\ UNCHANGED << sessOthers, seleniumbase_available, g_sb, g_browser, g_context, g_playwright,
                    t_attempt, calls_made, t_ret, drivers, contexts, teardowns, state_file >>

\* lines 71-89: an attempt of tenacity enters the `with` block
InitLock(t) ==
    /\ t_pc[t] = "i_lock"
    /\ CanAcquire(t)
    /\ lock' = Acquired(t)
    /\ t_attempt' = [t_attempt EXCEPT ![t] = @ + 1]
    /\ Goto(t, "i_body")
    /\ UNCHANGED << sessOthers, seleniumbase_available, g_sb, g_browser, g_context, g_playwright,
                    calls_made, t_ret, drivers, contexts, teardowns, state_file >>

\* how far the try block of lines 96-138 gets
InitOutcomes ==
    IF seleniumbase_available THEN {"chrome_raises", "start_raises", "launch_raises", "ok"}
    ELSE {"start_raises", "launch_raises", "ok"}

\* lines 90-159: the body of init_browser. In the except block of lines
\* 140-157 _playwright.stop() stops the driver the global names, which is
\* the newly started one once line 114 or 123 has run.
\* The attempt count of tenacity ends with the call.
InitBody(t) ==
    /\ t_pc[t] = "i_body"
    /\ lock' = Released
    /\ IF g_browser
       THEN /\ Return(t, FALSE)
            /\ t_attempt' = [t_attempt EXCEPT ![t] = 0]
            /\ UNCHANGED << g_sb, g_browser, g_playwright, drivers >>
       ELSE \E outcome \in InitOutcomes :
              /\ IF outcome = "ok"
                 THEN /\ g_sb' = (g_sb \/ seleniumbase_available)
                      /\ g_playwright' = NewId(drivers)
                      /\ drivers' = drivers \cup {NewId(drivers)}
                      /\ g_browser' = TRUE
                 ELSE /\ g_sb' = FALSE
                      /\ g_playwright' = 0
                      /\ drivers' = IF outcome = "launch_raises" THEN drivers
                                    ELSE drivers \ {g_playwright}
                      /\ UNCHANGED g_browser
              /\ IF outcome # "ok" /\ t_attempt[t] < MAX_RETRIES
                 THEN /\ Goto(t, "i_lock")
                      /\ UNCHANGED t_attempt
                 ELSE /\ Return(t, outcome # "ok")
                      /\ t_attempt' = [t_attempt EXCEPT ![t] = 0]
    /\ UNCHANGED << sessOthers, seleniumbase_available, g_context, calls_made, t_ret, contexts,
                    teardowns, state_file >>

\* line 372
CloseLock(t) ==
    /\ t_pc[t] = "c_lock"
    /\ CanAcquire(t)
    /\ lock' = Acquired(t)
    /\ Goto(t, "c_context")
    /\ UNCHANGED << sessOthers, seleniumbase_available, g_sb, g_browser, g_context, g_playwright,
                    t_attempt, calls_made, t_ret, drivers, contexts, teardowns, state_file >>

\* lines 374-388
CloseContext(t) ==
    /\ t_pc[t] = "c_context"
    /\ contexts' = contexts \ {g_context}
    /\ teardowns' = IF g_context # 0 THEN teardowns + 1 ELSE teardowns
    /\ g_context' = 0
    /\ g_browser' = FALSE
    /\ Goto(t, "c_driver")
    /\ UNCHANGED << sessOthers, seleniumbase_available, g_sb, g_playwright, lock, t_attempt, calls_made,
                    t_ret, drivers, state_file >>

\* lines 390-404
CloseDriver(t) ==
    /\ t_pc[t] = "c_driver"
    /\ drivers' = drivers \ {g_playwright}
    /\ g_playwright' = 0
    /\ g_sb' = FALSE
    /\ Goto(t, "c_return")
    /\ UNCHANGED << sessOthers, seleniumbase_available, g_browser, g_context, lock, t_attempt, calls_made,
                    t_ret, contexts, teardowns, state_file >>

\* the end of the `with` block of line 372
CloseReturn(t) ==
    /\ t_pc[t] = "c_return"
    /\ lock' = Released
    /\ Return(t, FALSE)
    /\ UNCHANGED << sessOthers, seleniumbase_available, g_sb, g_browser, g_context, g_playwright,
                    t_attempt, calls_made, t_ret, drivers, contexts, teardowns, state_file >>

\* lines 415-416
ResetLock(t) ==
    /\ t_pc[t] = "r_lock"
    /\ CanAcquire(t)
    /\ lock' = Acquired(t)
    /\ CallFrom(t, "close_browser")
    /\ UNCHANGED << sessOthers, seleniumbase_available, g_sb, g_browser, g_context, g_playwright,
                    t_attempt, calls_made, t_ret, drivers, contexts, teardowns, state_file >>

\* lines 417-420
ResetClear(t) ==
    /\ t_pc[t] = "r_clear"
    /\ g_browser' = FALSE
    /\ g_context' = 0
    /\ g_sb' = FALSE
    /\ lock' = Released
    /\ Return(t, FALSE)
    /\ UNCHANGED << sessOthers, seleniumbase_available, g_playwright, t_attempt, calls_made, t_ret, drivers,
                    contexts, teardowns, state_file >>

\* line 287
PageGetContext(t) ==
    /\ t_pc[t] = "p_get"
    /\ CallFrom(t, "get_browser_context")
    /\ UNCHANGED << sessOthers, seleniumbase_available, g_sb, g_browser, g_context, g_playwright, lock,
                    t_attempt, calls_made, t_ret, drivers, contexts, teardowns, state_file >>

\* lines 290-308: the page is taken or created (an exception leaves
\* create_page), then the homepage is loaded (an exception is caught at
\* line 350 and the page returned)
PageOpen(t) ==
    /\ t_pc[t] = "p_page"
    /\ \E outcome \in {"page_raises", "goto_raises", "ok"} :
         CASE outcome = "page_raises" -> Goto(t, "p_raise")
           [] outcome = "goto_raises" -> Return(t, FALSE)
           [] outcome = "ok" -> Goto(t, "p_probe")
    /\ UNCHANGED << sessOthers, seleniumbase_available, g_sb, g_browser, g_context, g_playwright, lock,
                    t_attempt, calls_made, t_ret, drivers, contexts, teardowns, state_file >>

\* lines 326-327 and 337-338: context.storage_state(path=...) writes the
\* file unless it raises
SavedAfter(probe, written) ==
    IF ~seleniumbase_available /\ written THEN probe ELSE state_file

\* lines 317-357: the probe of the homepage; the exception of line 329 is
\* caught at line 350
PageProbe(t) ==
    /\ t_pc[t] = "p_probe"
    /\ \E blocked \in BOOLEAN, written \in BOOLEAN :
         state_file' = IF blocked
                       THEN IF ~skip_captcha_check THEN SavedAfter("blocked", written)
                            ELSE state_file
                       ELSE SavedAfter("clean", written)
    /\ Return(t, FALSE)
    /\ UNCHANGED << sessOthers, seleniumbase_available, g_sb, g_browser, g_context, g_playwright, lock,
                    t_attempt, calls_made, t_ret, drivers, contexts, teardowns >>

\* lines 359-363
PageRaise(t) ==
    /\ t_pc[t] = "p_raise"
    /\ Return(t, TRUE)
    /\ UNCHANGED << sessOthers, seleniumbase_available, g_sb, g_browser, g_context, g_playwright, lock,
                    t_attempt, calls_made, t_ret, drivers, contexts, teardowns, state_file >>

SessNext ==
    \/ \E t \in Threads : SessCall(t)
    \/ \E t \in Threads : GetLock(t)
    \/ \E t \in Threads : GetCheck(t)
    \/ \E t \in Threads : GetLaunch(t)
    \/ \E t \in Threads : GetNewContext(t)
    \/ \E t \in Threads : GetRaise(t)
    \/ \E t \in Threads : InitLock(t)
    \/ \E t \in Threads : InitBody(t)
    \/ \E t \in Threads : CloseLock(t)
    \/ \E t \in Threads : CloseContext(t)
    \/ \E t \in Threads : CloseDriver(t)
    \/ \E t \in Threads : CloseReturn(t)
    \/ \E t \in Threads : ResetLock(t)
    \/ \E t \in Threads : ResetClear(t)
    \/ \E t \in Threads : PageGetContext(t)
    \/ \E t \in Threads : PageOpen(t)
    \/ \E t \in Threads : PageProbe(t)
    \/ \E t \in Threads : PageRaise(t)

SessSpec == SessInit /\ [][SessNext]_vars

\* ----------------------------------------------------------------------
\* The merge of a candidate with its detail record (app.py lines 124-129).
\* A dict is the function from its keys to its values.
\* ----------------------------------------------------------------------
\* the variables of the other parts of the model
mgOthers == << pipeVars, rankVars, urlVars, imgVars, kwVars, nrVars, sessVars, csVars >>

\* search_layer.py lines 543-553: the dict of a candidate. The name is
\* never empty (lines 527-535), description always is.
Candidates ==
    [product_name : {Str("Sepatu C")},
     description : {Str("")},
     price : {None, Num(1000)},
     currency : {Str("IDR")},
     image_url : {Str(""), Str("https://cdn.io/c.jpg")},
     store_name : {Str(""), Str("Toko C")},
     product_url : {Str("https://www.tokopedia.com/toko/sepatu")}]

\* detail_layer.py lines 605-618: the dict scrape_product_detail returns;
\* image_url is the first of image_urls or empty
DetailRecords ==
    { d \in [product_name : {Str(""), Str("Sepatu D")},
             description : {Str(""), Str("Deskripsi D")},
             price : {None, Num(2000)},
             currency : {Str("IDR")},
             image_url : {Str(""), Str("https://cdn.io/d.jpg")},
             image_urls : {List(<< >>), List(<< "https://cdn.io/d.jpg" >>)},
             store_name : {Str(""), Str("Toko D")}] :
        d.image_url = IF d.image_urls = List(<< >>) THEN Str("")
                      ELSE Str(d.image_urls.v[1]) }

\* line 125: {**cand, **detail}
DictUnion(left, right) ==
    [key \in DOMAIN left \cup DOMAIN right |->
        IF key \in DOMAIN right THEN right[key] ELSE left[key]]

\* d[key] = value
DictSet(d, key, value) ==
    [k \in DOMAIN d \cup {key} |-> IF k = key THEN value ELSE d[k]]

MgInit ==
    /\ PipeIdle
    /\ RankIdle
    /\ UrlIdle
    /\ ImgIdle
    /\ KwIdle
    /\ NrIdle
    /\ SessIdle
    /\ CsIdle
    /\ mg_cand \in Candidates
    /\ mg_detail \in DetailRecords
    /\ mg_pc = "start"
    /\ merged = << >>

\* line 125
MgMerge ==
    /\ mg_pc = "start"
    /\ merged' = DictUnion(mg_cand, mg_detail)
    /\ mg_pc' = "merged"
    /\ UNCHANGED << mgOthers, mg_cand, mg_detail >>

\* lines 126-129
MgStamp ==
    /\ mg_pc = "merged"
    /\ merged' = DictSet(DictSet(DictSet(merged, "input_keyword", Str("sepatu")),
                                 "source_site", Str("tokopedia")),
                         "scraped_at", Str("2026-01-01T00:00:00"))
    /\ mg_pc' = "appended"
    /\ UNCHANGED << mgOthers, mg_cand, mg_detail >>

MgNext ==
    \/ MgMerge
    \/ MgStamp

MgSpec == MgInit /\ [][MgNext]_vars

\* ----------------------------------------------------------------------
\* The card loop of search_candidates (search_layer.py lines 394-578), one
\* card at a time, on every list of cards the locator can find.
\* ----------------------------------------------------------------------
MaxStageCards == 3

csOthers == << pipeVars, rankVars, urlVars, imgVars, kwVars, nrVars, sessVars, mgVars >>

CsInit ==
    /\ PipeIdle
    /\ RankIdle
    /\ UrlIdle
    /\ ImgIdle
    /\ KwIdle
    /\ NrIdle
    /\ SessIdle
    /\ MgIdle
    /\ cs_cards \in SeqsUpTo({0} \cup UrlIds, MaxStageCards)
    /\ cs_pc = "loop"
    /\ cs_i = 0
    /\ cs_candidates = << >>
    /\ cs_ret = << >>

\* lines 399-563: one iteration; the break of line 561 ends the loop
CsExamineCard ==
    /\ cs_pc = "loop"
    /\ cs_i < max_cards_to_check(Len(cs_cards))
    /\ Len(cs_candidates) < max_candidates
    /\ cs_i' = cs_i + 1
    /\ cs_candidates' =
         IF cs_cards[cs_i + 1] = 0 THEN cs_candidates
         ELSE Append(cs_candidates, [product_url |-> cs_cards[cs_i + 1]])
    /\ UNCHANGED << csOthers, cs_cards, cs_pc, cs_ret >>

\* lines 568-578: dedupe by product_url, then the slice
CsDedupeReturn ==
    /\ cs_pc = "loop"
    /\ \/ cs_i >= max_cards_to_check(Len(cs_cards))
       \/ Len(cs_candidates) >= max_candidates
    /\ cs_ret' = Truncate(DedupeByUrl(cs_candidates, {}, << >>), max_candidates)
    /\ cs_pc' = "returned"
    /\ UNCHANGED << csOthers, cs_cards, cs_i, cs_candidates >>

CsNext ==
    \/ CsExamineCard
    \/ CsDedupeReturn

CsSpec == CsInit /\ [][CsNext]_vars

\* ======================================================================
\* Properties
\* ======================================================================
RowsOf(k) == { i \in 1..Len(all_rows) : all_rows[i].input_keyword = k }

\* C1: when the last attempt of a search_candidates call detected a
\* blocking page and the call ends with an exception, the exception that
\* reaches run_pipeline is TokopediaBlockedError.
C1_BlockedErrorReachesCaller ==
    (pc = "kw_except" /\ attemptExc = "TokopediaBlockedError")
        => callerExc = "TokopediaBlockedError"

\* C2: within one call of search_candidates no goto to the search URL is
\* made after a blocking page has been detected.
C2_NoNavigationAfterBlocked == navAfterBlocked = 0

\* C3: when discovery for keyword i ended blocked, run_pipeline does not
\* start keyword i+1 and does not return normally: the blocked condition is
\* surfaced to its caller.
C3_BlockedStopsRun ==
    \A i \in 1..NumKeywords :
        searchEnd[i] = "blocked" =>
            /\ \A j \in 1..Len(started) : started[j] <= i
            /\ pc # "export"
            /\ pc # "returned"

\* the page shows a verification/blocking marker
HasMarker(text) ==
    \/ ("captcha" \in text /\ text \cap {"form", "challenge", "verify"} # {})
    \/ text \cap {"access denied", "blocked", "forbidden"} # {}

\* C4: the body of search_candidates raises TokopediaBlockedError in an
\* attempt if and only if the captcha check is enabled, the rendered page
\* contains a verification/blocking marker and no product indicator element
\* was found on it; with SKIP_CAPTCHA_CHECK set it is never raised.
C4_BlockedIffMarkerAndNoProduct ==
    [][ pc = "search_check" =>
          ( (attemptExc' = "TokopediaBlockedError")
            <=> ( /\ ~skip_captcha_check
                  /\ page.readable
                  /\ HasMarker(page.text)
                  /\ page.indicators <= 0 ) ) ]_vars

C4_Witness ==
    /\ attemptExc = "TokopediaBlockedError"
    /\ ~skip_captcha_check
    /\ blockedSeen

\* C5: a keyword for which the keyword-level except clause of run_pipeline
\* ran contributes no row to all_rows.
C5_FailedKeywordHasNoRows ==
    \A k \in 1..NumKeywords :
        Contains(handlersRun[k], "keyword_handler") => RowsOf(k) = {}

C5_Witness ==
    /\ pc = "returned"
    /\ Contains(handlersRun[1], "keyword_handler")
    /\ RowsOf(1) = {}
    /\ RowsOf(2) # {}

\* C6: once create_page returned, run_pipeline eventually has started every
\* keyword, in input order, and returns the collected rows instead of
\* raising, whatever exceptions earlier keywords raised.
C6_EveryKeywordStartedThenReturn ==
    page_created ~>
        ( /\ pc = "returned"
          /\ started = [i \in 1..NumKeywords |-> i]
          /\ ret.kind = "return"
          /\ ret.rows = all_rows )

C6_Witness ==
    /\ pc = "returned"
    /\ ret.kind = "return"
    /\ Contains(handlersRun[1], "keyword_handler")
    /\ started = [i \in 1..NumKeywords |-> i]

RECURSIVE ResolvedUrls(_, _, _)
\* the product_url of the candidates cands[i..] whose outcome is "ok", in order
ResolvedUrls(cands, outcomes, i) ==
    IF i > Len(cands) \/ i > Len(outcomes) THEN << >>
    ELSE IF outcomes[i] = "ok"
    THEN << cands[i].product_url >> \o ResolvedUrls(cands, outcomes, i + 1)
    ELSE ResolvedUrls(cands, outcomes, i + 1)

\* C7: when the candidate loop of a keyword is over, scrape_product_detail
\* was called for every candidate, and the records kept are exactly the
\* candidates whose resolution succeeded, in discovery order.
C7_DetailFailureDropsOnlyThatCandidate ==
    pc = "detail_done" =>
        /\ Len(detailOutcome) = Len(candidates)
        /\ [i \in 1..Len(detailed) |-> detailed[i].product_url]
               = ResolvedUrls(candidates, detailOutcome, 1)
        /\ \A i \in 1..Len(detailed) : detailed[i].input_keyword = kw

C7_Witness ==
    /\ pc = "detail_done"
    /\ detailOutcome = << "fail", "ok" >>
    /\ Len(detailed) = 1
    /\ detailed[1].product_url = candidates[2].product_url

\* no examined card carries a valid product URL (this includes: no card)
NoValidCard(cs) == \A i \in 1..Len(cs) : cs[i] = 0

\* C8: when the card stage of search_candidates finds no card, or no card
\* with a valid product URL, the call returns the empty list without
\* raising; run_pipeline then has no row for that keyword and does not
\* raise.
C8_NoCandidateNoRowsNoRaise ==
    /\ [][ (pc = "search_cards" /\ NoValidCard(cards')) =>
             ( /\ pc' = "search_returned"
               /\ candidates' = << >>
               /\ callerExc' = NoExc ) ]_vars
    /\ [](\A k \in 1..NumKeywords :
             searchEnd[k] = "empty" =>
                 /\ RowsOf(k) = {}
                 /\ handlersRun[k] = << >>
                 /\ pc \notin {"fatal", "raised"})

C8_Witness ==
    /\ pc = "returned"
    /\ ret.kind = "return"
    /\ searchEnd[1] = "empty"
    /\ RowsOf(1) = {}
    /\ RowsOf(2) # {}

\* C9: when the export fails after the keyword loop, run_pipeline returns
\* without raising, with no spreadsheet bytes and with every collected row.
C9_ExportFailureKeepsRows ==
    (pc = "returned" /\ ret.excel_bytes = "none") =>
        /\ ret.kind = "return"
        /\ ret.rows = all_rows

C9_Witness ==
    /\ pc = "returned"
    /\ ret.excel_bytes = "none"
    /\ ret.rows # << >>

\* C10: one scrape_product_detail call makes at most MAX_RETRIES attempts;
\* it returns in the first attempt whose navigation succeeds and raises only
\* after MAX_RETRIES attempts have all failed.
C10_DetailAttemptsBounded ==
    /\ Len(gotoLog) <= MAX_RETRIES
    /\ dAttempt <= MAX_RETRIES
    /\ pc = "detail_returned" =>
          /\ detailRet = "return" =>
                /\ gotoLog[Len(gotoLog)]
                /\ \A i \in 1..(Len(gotoLog) - 1) : ~gotoLog[i]
          /\ detailRet = "raise" =>
                /\ Len(gotoLog) = MAX_RETRIES
                /\ \A i \in 1..Len(gotoLog) : ~gotoLog[i]

C10_Witness ==
    /\ pc = "detail_returned"
    /\ detailRet = "raise"
    /\ Len(gotoLog) = MAX_RETRIES

\* C11: every tab scrape_product_detail opened is closed when the attempt
\* that opened it exits, by return or by exception, in every retry attempt;
\* outside a running attempt no tab the call opened is open, and the
\* caller's page, used when no tab could be opened, is never closed by it.
C11_DetailTabsClosed ==
    /\ ~mainPageClosed
    /\ pc = "detail_body" =>
          tabsOpened - tabsClosed = (IF detail_page = "tab" THEN 1 ELSE 0)
    /\ pc # "detail_body" => tabsClosed = tabsOpened

\* a call whose three attempts all failed, two in a tab of their own and
\* one on the caller's page
C11_Witness ==
    /\ pc = "detail_returned"
    /\ detailRet = "raise"
    /\ tabsOpened = 2
    /\ tabsClosed = 2
    /\ ~mainPageClosed

\* the ranking's view of a record of run_pipeline; the records of the
\* pipeline model differ in their store name only
RankView(rec) ==
    [product_name |-> {"sepatu"}, price |-> 1000, store_name |-> rec.store_name]

\* what rank_and_select_top_n would select from the resolved records
RankedSelection(records) ==
    LET items == [i \in 1..Len(records) |-> RankView(records[i])]
        order == RankOrder(RankKeyword, items, Filtered(items), DefaultTopN)
    IN [i \in 1..Len(order) |-> records[order[i]]]

\* C12: the records of a keyword that go on to the media step and to the
\* output rows are the selection of rank_and_select_top_n over the resolved
\* records, in ranked order.
C12_TopIsRankerSelection ==
    [][ (pc = "detail_done" /\ detailed # << >>)
          => top' = RankedSelection(detailed) ]_vars

\* the indices of the records of a rank_and_select_top_n call with a
\* positive price
PricedIndices(products) == { i \in 1..Len(products) : products[i].price > 0 }

\* C13: in a rank_and_select_top_n call with fewer than 8 positive-priced
\* records the outlier test removes nothing: a record is missing from
\* `filtered` if and only if its price is positive and outside
\* [500, 200000000]; the records kept are in input order.
C13_FewPricesOnlyHardBounds ==
    ( /\ rank_result.kind \in {"filtered", "return"}
      /\ rank_call.products # << >>
      /\ Cardinality(PricedIndices(rank_call.products)) < 8 )
    => rank_result.filtered =
         SelectSeq([i \in 1..Len(rank_call.products) |-> i],
                   LAMBDA i : ~( /\ rank_call.products[i].price > 0
                                 /\ \/ rank_call.products[i].price < 500
                                    \/ rank_call.products[i].price > 200000000 ))

\* seven priced records: the sixth is far outside the interquartile range
\* of the prices and is kept, the seventh is below the hard minimum
C13_Witness ==
    /\ rank_result.kind = "return"
    /\ [i \in 1..Len(rank_call.products) |-> rank_call.products[i].price]
          = << 1000, 1000, 1000, 1000, 1000, 100000, 100 >>
    /\ OutsideIqr(100000, iqr_bounds(extract_prices(rank_call.products)))
    /\ rank_result.filtered = << 1, 2, 3, 4, 5, 6 >>

ScoreOf(i) == Score(rank_call.keyword, rank_call.products[i])

\* C14: the order returned by rank_and_select_top_n lists at most top_n
\* distinct records of the input, by non-increasing composite score
\* (0.75 * relevance + 0.25 * completeness); two returned records with
\* equal score keep their input order.
C14_StableDescendingTopN ==
    rank_result.kind = "return" =>
        LET order == rank_result.order
        IN /\ Len(order) <= rank_call.top_n
           /\ \A i \in 1..Len(order) : order[i] \in 1..Len(rank_call.products)
           /\ \A i, j \in 1..Len(order) :
                 i < j =>
                   /\ order[i] # order[j]
                   /\ ScoreGE(ScoreOf(order[i]), ScoreOf(order[j]))
                   /\ ScoreGE(ScoreOf(order[j]), ScoreOf(order[i])) => order[i] < order[j]

\* the third record scores highest, the first two tie
C14_Witness ==
    /\ rank_result.kind = "return"
    /\ rank_result.order = << 3, 1, 2 >>
    /\ ScoreGE(ScoreOf(2), ScoreOf(1))
    /\ ScoreGE(ScoreOf(1), ScoreOf(2))
    /\ ScoreGT(ScoreOf(3), ScoreOf(1))

\* the position of the first examined card that carries url
FirstCard(cs, url) == CHOOSE i \in 1..Len(cs) : cs[i] = url /\ \A j \in 1..(i - 1) : cs[j] # url

C16_AcceptedUrlHasProductShape ==
    (url_result.kind = "return" /\ url_result.accepted) =>
        /\ Len(url_call.url.segments) >= 2
        /\ Lower(url_call.url.segments[1]) \notin NON_PRODUCT_FIRST_SEGMENTS

\* the URLs of the model that match the pattern of validate_image_url
ValidImageUrls ==
    {"https://cdn.io/200x200/a.jpg", "https://cdn.io/2000x2000/a.jpg", "https://cdn.io/b.jpg"}

PathsOf(paths) == { paths[k] : k \in 1..Len(paths) }

\* the loop of download_product_images is past the URL at index i
Past(i) == img_pc \in {"loop", "returned"} /\ i < idx

\* C17: download_product_images issues no request for a URL that fails
\* validate_image_url and returns no path for it, while every valid URL of
\* the same call is requested or found on disk.
C17_InvalidUrlNeverRequested ==
    img_pc \in {"loop", "returned"} =>
        /\ \A i \in requested : urls[i] \in ValidImageUrls
        /\ \A k \in 1..Len(saved) : urls[saved[k][1]] \in ValidImageUrls
        /\ \A i \in 1..Len(urls) :
              (Past(i) /\ urls[i] \in ValidImageUrls) => i \in requested \cup reused

\* an ftp URL before a valid one: only the second was requested and saved
C17_Witness ==
    /\ img_pc = "returned"
    /\ img_call.no = 1
    /\ urls = << "ftp://cdn.io/a.jpg", "https://cdn.io/b.jpg" >>
    /\ requested = {2}
    /\ saved = << OutPath(2, "https://cdn.io/b.jpg") >>

\* the file of the URL at index i holds a whole response body: a fetch of
\* it succeeded, in this call or in an earlier one
FetchSucceeded(i) ==
    /\ urls[i] \in ValidImageUrls
    /\ FileState(disk, OutPath(i, urls[i])) = "complete"

\* C18: a failed fetch of one URL does not abort the batch: when
\* download_product_images returns, every valid URL was attempted (or found
\* on disk) and the returned list holds exactly the paths of the URLs whose
\* fetch succeeded, in input order.
C18_ResultIsExactlyTheFetched ==
    (img_pc = "returned" /\ img_call.image_urls # << >>) =>
        /\ \A i \in 1..Len(urls) :
              urls[i] \in ValidImageUrls => i \in requested \cup reused
        /\ LET ok == SelectSeq([i \in 1..Len(urls) |-> i], FetchSucceeded)
           IN saved = [k \in 1..Len(ok) |-> OutPath(ok[k], urls[ok[k]])]

\* C19 as stated: a second call with the same arguments requests no URL
\* whose file the first call saved and returns the same list of paths.
C19_SecondCallSameList ==
    (img_pc = "returned" /\ img_call.no >= 2) =>
        /\ \A i \in requested : OutPath(i, urls[i]) \notin PathsOf(prev_saved)
        /\ saved = prev_saved

\* C19: a second call with the same arguments requests no URL whose file
\* the first call saved, and returns every path the first call returned, in
\* the same order; it may return further paths, for URLs the first call
\* did not save.
C19_SecondCallKeepsSavedPaths ==
    (img_pc = "returned" /\ img_call.no >= 2) =>
        /\ \A i \in requested : OutPath(i, urls[i]) \notin PathsOf(prev_saved)
        /\ SelectSeq(saved, LAMBDA path : path \in PathsOf(prev_saved)) = prev_saved

\* the first call saved the first of two URLs; the second call took it
\* from disk and fetched the other
C19_Witness ==
    /\ img_pc = "returned"
    /\ img_call.no = 2
    /\ Len(prev_saved) = 1
    /\ reused = {1}
    /\ requested = {2}
    /\ Len(saved) = 2
    /\ saved[1] = prev_saved[1]

\* C20: after a fetch that exceeded the byte cap no file of that URL is on
\* disk and its path is not in the list being returned.
C20_OversizedLeavesNoFile ==
    (img_pc \in {"loop", "returned"} /\ last_fetch.outcome = "too_big") =>
        LET path == OutPath(last_fetch.idx, urls[last_fetch.idx])
        IN /\ FileState(disk, path) = "absent"
           /\ path \notin PathsOf(saved)

\* C21: in download_product_images a URL whose first request fails
\* transiently is requested again before the loop moves to the next URL.
C21_TransientFailureIsRetried ==
    [][(/\ img_pc = "loop"
        /\ idx \notin requested
        /\ idx \in requested'
        /\ last_fetch'.outcome = "request_exception") => idx' = idx]_vars

\* the position in the argument of the first raw keyword whose normal form
\* is n
FirstRaw(n) ==
    CHOOSE i \in 1..Len(keywords) :
        /\ normalize_keyword(keywords[i]) = n
        /\ \A j \in 1..(i - 1) : normalize_keyword(keywords[j]) # n

\* C22: normalize_keywords returns a list without duplicates and without
\* empty entries that holds exactly the non-empty normal forms of the raw
\* keywords, in the order of their first occurrence in the input.
C22_UniqueNonEmptyFirstOccurrenceOrder ==
    nk_pc = "returned" =>
        /\ \A i, j \in 1..Len(unique) : i # j => unique[i] # unique[j]
        /\ \A i \in 1..Len(unique) : unique[i] # << >>
        /\ { unique[i] : i \in 1..Len(unique) } =
             { normalize_keyword(keywords[i]) : i \in 1..Len(keywords) } \ { << >> }
        /\ \A i, j \in 1..Len(unique) : i < j => FirstRaw(unique[i]) < FirstRaw(unique[j])

\* "aa", then "A" and "a!" that both normalize to "a": two entries, in the
\* order of first occurrence
C22_Witness ==
    /\ nk_pc = "returned"
    /\ keywords = << << "a", "a" >>, << "A" >>, << "a", "!" >> >>
    /\ unique = << << "a", "a" >>, << "a" >> >>

KeyOrder(items) == [i \in 1..Len(items) |-> items[i][1]]

ValueOf(items, key) == (CHOOSE i \in 1..Len(items) : items[i][1] = key)

\* the field was left unfilled: absent, None or the empty string
Unfilled(val) == val \in {Missing, None, Str("")}

\* C23: a row returned by normalize_output_row has exactly the 13 fields
\* of OUTPUT_SCHEMA, in schema order; a text field left unfilled is the
\* empty string, an unfilled price is null, and currency is never empty and
\* is IDR when nothing resolves it.
C23_RowHasSchemaFieldsInOrder ==
    nr_pc = "returned" =>
        /\ KeyOrder(out) = OUTPUT_SCHEMA
        /\ \A i \in 1..Len(out) :
              LET key == out[i][1]
                  val == out[i][2]
              IN /\ (key \in TextKeys \cup {"image_urls", "image_local_paths"}
                        /\ Unfilled(nr_row[key])) => val = Str("")
                 /\ (key = "price" /\ Unfilled(nr_row[key])) => val = None
                 /\ key = "currency" => (val.t = "str" /\ val.v # "")
                 /\ (key = "currency" /\ Unfilled(nr_row["currency"])
                        /\ Unfilled(nr_row["price"])) => val = Str("IDR")

\* a record with nothing but the fields run_pipeline sets itself
C23_Witness ==
    /\ nr_pc = "returned"
    /\ \A key \in {"product_name", "description", "price", "currency", "image_url",
                   "image_local_path", "image_urls", "image_local_paths", "store_name",
                   "product_url"} : nr_row[key] = Missing
    /\ out[4] = << "price", None >>
    /\ out[5] = << "currency", Str("IDR") >>
    /\ out[8] = << "image_urls", Str("") >>

\* C24: under any interleaving of calls of get_browser_context,
\* init_browser, close_browser, reset_browser and create_page by several
\* threads, at most one browser context is live, the get_browser_context
\* calls between two teardowns return the same context, and whenever a
\* call is in progress some thread can take a step (no call waits forever
\* for _lock, reset_browser's nested close_browser included).
C24_OneLiveContextNoDeadlock ==
    /\ Cardinality(contexts) <= 1
    /\ \A t1, t2 \in Threads :
          (/\ t_ret[t1] # NoContext
           /\ t_ret[t2] # NoContext
           /\ t_ret[t1].epoch = t_ret[t2].epoch) => t_ret[t1].ctx = t_ret[t2].ctx
    /\ (\E t \in Threads : t_pc[t] # "idle") => ENABLED SessNext

\* both threads got the same context, then reset_browser tore it down and
\* returned
C24_Witness ==
    /\ \A t \in Threads : t_pc[t] = "idle"
    /\ t_ret[1] # NoContext
    /\ t_ret[1] = t_ret[2]
    /\ teardowns = 1
    /\ contexts = {}
    /\ calls_made = 3

\* C25: create_page never saves the storage state after a probe of the
\* homepage that detected a captcha or blocking page.
C25_StateSavedOnlyWhenUnblocked == state_file # "blocked"

\* C30: when close_browser reaches its end (alone or inside
\* reset_browser), every Playwright driver started since the previous
\* teardown has been stopped.
C30_NoDriverLeftAfterTeardown ==
    \A t \in Threads : t_pc[t] = "c_return" => drivers = {}

\* C26: the merged record keeps the candidate's product name, price, store
\* name and image URL wherever the candidate has a value and the detail
\* record has none.
C26_MergeKeepsCandidateValue ==
    mg_pc \in {"merged", "appended"} =>
        \A key \in {"product_name", "price", "store_name", "image_url"} :
            (Truthy(mg_cand[key]) /\ ~Truthy(mg_detail[key])) => merged[key] = mg_cand[key]

\* C27: with image download enabled, the row of a record whose images
\* could be fetched (a valid image URL whose request succeeds) has a
\* non-empty image_local_path.
C27_FetchedImageReachesRow ==
    [][(/\ pc = "normalize"
        /\ enable_image_download
        /\ top[tIdx].image_fetchable
        /\ Len(all_rows') = Len(all_rows) + 1)
       => all_rows'[Len(all_rows')].image_local_path # ""]_vars

\* C28: every path download_product_images returns names a file that holds
\* a completely downloaded response body.
C28_ReturnedPathsAreComplete ==
    img_pc = "returned" =>
        \A k \in 1..Len(saved) : FileState(disk, saved[k]) = "complete"

\* the distinct product URLs on the cards search_candidates examines
ExaminedUrls ==
    { cs_cards[i] : i \in 1..max_cards_to_check(Len(cs_cards)) } \ {0}

\* C29: when the examined cards carry at least max_candidates distinct
\* product URLs, search_candidates returns exactly max_candidates
\* candidates.
C29_EnoughDistinctCardsFillTheList ==
    (cs_pc = "returned" /\ Cardinality(ExaminedUrls) >= max_candidates)
    => Len(cs_ret) = max_candidates

====
